---- MODULE Spec2Model ----
(***************************************************************************)
(* A model of hartodb-go: the record codec, the table file, the            *)
(* transaction engine, the table manager and the cleanup worker.           *)
(*                                                                         *)
(* Go objects reached through pointers (the records) live in `heap`; a     *)
(* handle is an index into it.  A table file is the sequence of its        *)
(* serialized records, a ref sidecar the sequence of its bytes.            *)
(***************************************************************************)
EXTENDS Integers, Sequences, FiniteSets, TLC

\* ------------------------------------------------------------------ bounds
MaxTx == 2
MaxHandles == 2
MaxClock == 3

\* ------------------------------------------------------- program constants
TxIdMod == 16777216

DefaultSchema == "testSchema"

\* The clock when the run starts: after the earlier run's insert.
FirstReading == 2

\* ---------------------------------------------------------------- helpers
Range(s) == { s[i] : i \in DOMAIN s }

EmptyMap == [x \in {} |-> 0]

Put(m, k, v) == [x \in (DOMAIN m) \cup {k} |-> IF x = k THEN v ELSE m[x]]

Del(m, k) == [x \in (DOMAIN m) \ {k} |-> m[x]]

Orders(S) == { o \in [1..Cardinality(S) -> S] : \A i, j \in 1..Cardinality(S) : o[i] = o[j] => i = j }

\* ----------------------------------------------------------------- values
\* interface{} values: an int, an int64, a string (a sequence of bytes) or
\* nil.
IntV(i) == [k |-> "int", i |-> i, s |-> <<>>]

Int64V(i) == [k |-> "int64", i |-> i, s |-> <<>>]

StrV(s) == [k |-> "string", i |-> 0, s |-> s]

NilV == [k |-> "nil", i |-> 0, s |-> <<>>]

\* ---------------------------------------------------------------- catalog
\* Every table is created with the implicit id field, an int and a ref field.
TableFields == << [name |-> "id", type |-> "timeID", length |-> 8],
                  [name |-> "val", type |-> "int", length |-> 8],
                  [name |-> "body", type |-> "ref", length |-> 128] >>

Tbl(s, n) == [schema |-> s, name |-> n]

\* The length of the string field of the table of names.
NameLen == 3

\* A table with a string field.
NameFields == << [name |-> "id", type |-> "timeID", length |-> 8],
                 [name |-> "name", type |-> "string", length |-> NameLen] >>

NamesTable == Tbl(DefaultSchema, "names")

AllTables == { Tbl("s", "t"), Tbl(DefaultSchema, "t"), NamesTable }

\* Table.Fields, as the table's config file holds them.
Fields(t) == IF t = NamesTable THEN NameFields ELSE TableFields

\* The data roots a run starts from.  A data root outlives the process: it is
\* empty tables just created, or tables that hold what an earlier run
\* committed (InsertRecord of val 7 and body "ab" at clock reading 0).
EmptyRoot(ts) ==
  [ tables |-> ts,
    files |-> [t \in AllTables |-> <<>>],
    side |-> [t \in AllTables |-> [body |-> <<>>]] ]

UsedRoot(ts, t0) ==
  [ tables |-> ts,
    files |-> [t \in AllTables |->
                 IF t = t0
                   THEN << [ id |-> 1, cur |-> TRUE, del |-> FALSE, lck |-> FALSE, tx |-> 0,
                             cells |-> [val |-> [null |-> FALSE, pay |-> 7],
                                        body |-> [null |-> FALSE, pay |-> <<0, 2>>]] ] >>
                   ELSE <<>>],
    side |-> [t \in AllTables |->
                IF t = t0 THEN [body |-> <<"a", "b">>] ELSE [body |-> <<>>]] ]

\* A table whose sidecar holds a payload no record references: what an
\* earlier run left that staged an insert with body "ab" and rolled it back.
OrphanRoot(ts, t0) ==
  [ tables |-> ts,
    files |-> [t \in AllTables |-> <<>>],
    side |-> [t \in AllTables |->
                IF t = t0 THEN [body |-> <<"a", "b">>] ELSE [body |-> <<>>]] ]

\* What the callers of a run insert: well-typed data with or without a value
\* for the ref field, or a string for the int field val.
GoodData == [val |-> IntV(42), body |-> StrV(<<"c">>)]

PlainData == [val |-> IntV(5)]

BadData == [val |-> StrV(<<"x">>)]

\* The runs checked: the data root and the data its callers insert.
Runs == { [root |-> EmptyRoot({Tbl("s", "t")}), inserts |-> {GoodData}],
          [root |-> UsedRoot({Tbl("s", "t"), Tbl(DefaultSchema, "t")}, Tbl(DefaultSchema, "t")),
           inserts |-> {GoodData}],
          [root |-> OrphanRoot({Tbl(DefaultSchema, "t")}, Tbl(DefaultSchema, "t")),
           inserts |-> {PlainData}] }

\* The run whose callers insert a string for the int field.
MistypedRuns == { [root |-> UsedRoot({Tbl(DefaultSchema, "t")}, Tbl(DefaultSchema, "t")),
                   inserts |-> {BadData}] }

\* ----------------------------------------------------------------- record
NewRecord(id, data) ==
  [ id |-> id, cur |-> TRUE, del |-> FALSE, lck |-> FALSE, tx |-> 0,
    data |-> [k \in {"id"} \cup DOMAIN data |->
                IF k \in DOMAIN data THEN data[k] ELSE Int64V(id)],
    meta |-> [k \in {"id"} \cup DOMAIN data |->
                IF k \in DOMAIN data THEN data[k].k = "nil" ELSE FALSE],
    ref |-> EmptyMap ]

\* Record.Lock: the record after the call, or the conflict and its holder.
LockAlways(r, txid) ==
  [ok |-> TRUE, holder |-> 0, r |-> [r EXCEPT !.lck = TRUE, !.tx = txid]]

\* Record.Lock that marks the record locked and leaves its owner as it was.
LockUnowned(r, txid) ==
  IF r.lck /\ r.tx # txid
    THEN [ok |-> FALSE, holder |-> r.tx, r |-> r]
    ELSE [ok |-> TRUE, holder |-> 0, r |-> [r EXCEPT !.lck = TRUE]]

Lock(r, txid) ==
  IF r.lck /\ r.tx # txid
    THEN [ok |-> FALSE, holder |-> r.tx, r |-> r]
    ELSE [ok |-> TRUE, holder |-> 0, r |-> [r EXCEPT !.lck = TRUE, !.tx = txid]]

Unlock(r) == [r EXCEPT !.lck = FALSE, !.tx = 0]

\* Record.Clone: a staging copy with the clock reading t as its id.
Clone(r, txid, t) ==
  IF r.lck /\ r.tx # txid
    THEN [ok |-> FALSE, holder |-> r.tx, r |-> r]
    ELSE [ok |-> TRUE, holder |-> 0,
          r |-> [ id |-> t, cur |-> FALSE, del |-> r.del, lck |-> TRUE, tx |-> txid,
                  data |-> Put(r.data, "id", Int64V(t)),
                  meta |-> Put(r.meta, "id", FALSE),
                  ref |-> r.ref ]]

\* ------------------------------------------------------------------ codec
\* The zero byte, where a cell holds the bytes of a string.
Nul == "NUL"

\* copy(cell, v) into a cell of zero bytes: v cut to the length of the cell,
\* the rest of the cell left zero.
CopyInto(v, length) ==
  [i \in 1..length |-> IF i <= Len(v) THEN v[i] ELSE Nul]

ZeroCell(f) ==
  CASE f.type = "ref" -> <<0, 0>>
    [] f.type = "string" -> CopyInto(<<>>, f.length)
    [] OTHER -> 0

\* One field of Record.Serialize: the null byte and the payload bytes.
SerializeField(r, f) ==
  LET isNull == IF f.name \in DOMAIN r.meta THEN r.meta[f.name] ELSE TRUE
      exists == f.name \in DOMAIN r.data
  IN  IF ~exists \/ isNull
        THEN [ok |-> TRUE, null |-> isNull, pay |-> ZeroCell(f)]
      ELSE IF f.type \in {"int", "timeID"}
        THEN IF r.data[f.name].k = "int64" \/ (f.type = "int" /\ r.data[f.name].k = "int")
               THEN [ok |-> TRUE, null |-> FALSE, pay |-> r.data[f.name].i]
               ELSE [ok |-> FALSE, null |-> FALSE, pay |-> 0]
      ELSE IF f.type = "string"
        THEN IF r.data[f.name].k = "string"
               THEN [ok |-> TRUE, null |-> FALSE, pay |-> CopyInto(r.data[f.name].s, f.length)]
               ELSE [ok |-> FALSE, null |-> FALSE, pay |-> ZeroCell(f)]
      ELSE IF f.type = "ref"
        THEN IF f.name \in DOMAIN r.ref
               THEN [ok |-> TRUE, null |-> FALSE, pay |-> r.ref[f.name]]
               ELSE [ok |-> FALSE, null |-> FALSE, pay |-> <<0, 0>>]
      ELSE [ok |-> FALSE, null |-> FALSE, pay |-> 0]

NonIdFields(fields) == SelectSeq(fields, LAMBDA f : f.name # "id")

FieldNames(fields) == { fields[i].name : i \in DOMAIN fields }

FieldByName(fields, n) == CHOOSE f \in Range(fields) : f.name = n

\* Record.Serialize: the bytes of the record, field by field.
Serialize(r, fields) ==
  LET names == FieldNames(NonIdFields(fields))
      cell(n) == SerializeField(r, FieldByName(fields, n))
  IN  IF \E n \in names : ~cell(n).ok
        THEN [ok |-> FALSE, bytes |-> <<>>]
        ELSE [ok |-> TRUE,
              bytes |-> [ id |-> r.id, cur |-> r.cur, del |-> r.del, lck |-> r.lck,
                          tx |-> r.tx % TxIdMod,
                          cells |-> [n \in names |->
                                       [null |-> cell(n).null, pay |-> cell(n).pay]] ]]

\* DeserializeRecord: a null cell leaves no value and no offsets; a ref cell
\* gives offsets and no value; a string cell gives all its bytes.
DeserializeRecord(b, fields) ==
  LET names == FieldNames(NonIdFields(fields))
      live(t) == { n \in names : ~b.cells[n].null /\ FieldByName(fields, n).type \in t }
  IN  [ id |-> b.id, cur |-> b.cur, del |-> b.del, lck |-> b.lck, tx |-> b.tx,
        data |-> [n \in {"id"} \cup live({"int", "timeID", "string"}) |->
                    IF n = "id" THEN Int64V(b.id)
                    ELSE IF FieldByName(fields, n).type = "string"
                      THEN StrV(b.cells[n].pay)
                    ELSE Int64V(b.cells[n].pay)],
        meta |-> [n \in {"id"} \cup names |->
                    IF n = "id" THEN FALSE ELSE b.cells[n].null],
        ref |-> [n \in live({"ref"}) |-> b.cells[n].pay] ]

\* ------------------------------------------------------------- table file
\* GetTable: a name without a schema part resolves into the default schema.
GetTable(w, parts) ==
  LET schemaName == IF Len(parts) > 1 THEN parts[1] ELSE DefaultSchema
      tableNameOnly == IF Len(parts) > 1 THEN parts[2] ELSE parts[1]
      t == Tbl(schemaName, tableNameOnly)
  IN  IF ~\E x \in w.tables : x.schema = schemaName
        THEN [ok |-> FALSE, table |-> t]
      ELSE IF t \notin w.tables
        THEN [ok |-> FALSE, table |-> t]
      ELSE [ok |-> TRUE, table |-> t]

\* Table.GetAllRecords: fresh records decoded from the table file.
GetAllRecords(w, t) ==
  [i \in DOMAIN w.files[t] |-> DeserializeRecord(w.files[t][i], Fields(t))]

\* Table.WriteRecords: all records serialize and the file is replaced, or
\* the file stays as it was.
WriteRecords(w, t, records) ==
  LET out == [i \in DOMAIN records |-> Serialize(records[i], Fields(t))]
  IN  IF \E i \in DOMAIN records : ~out[i].ok
        THEN [ok |-> FALSE, w |-> w]
        ELSE [ok |-> TRUE,
              w |-> [w EXCEPT !.files[t] = [i \in DOMAIN records |-> out[i].bytes]]]

\* Record.WriteRefData: append to the sidecar, the offsets are [start, end).
WriteRefData(w, r, t, fieldName, value) ==
  LET start == Len(w.side[t][fieldName])
  IN  [ w |-> [w EXCEPT !.side[t][fieldName] = @ \o value],
        r |-> [r EXCEPT !.ref = Put(@, fieldName, <<start, start + Len(value)>>)] ]

\* Record.ReadRefData: the bytes at the record's offsets of the sidecar.
Slice(bytes, a, b) == [i \in 1..(b - a) |-> bytes[a + i]]

ReadRefData(r, bytes, fieldName) ==
  IF fieldName \notin DOMAIN r.ref
    THEN [ok |-> FALSE, value |-> <<>>]
  ELSE IF r.ref[fieldName][1] < 0 \/ r.ref[fieldName][2] > Len(bytes)
          \/ r.ref[fieldName][1] > r.ref[fieldName][2]
    THEN [ok |-> FALSE, value |-> <<>>]
  ELSE [ok |-> TRUE, value |-> Slice(bytes, r.ref[fieldName][1], r.ref[fieldName][2])]

\* ------------------------------------------------------------ transaction
Key(t, r) == <<t.name, r.id>>

\* NewTransaction through TableManager.BeginTransaction.
BeginTransaction(w) ==
  LET id == w.txCounter + 1
  IN  [ tx |-> id,
        w |-> [w EXCEPT !.txCounter = id,
                        !.status = Put(@, id, "active"),
                        !.locked = Put(@, id, {}),
                        !.staged = Put(@, id, EmptyMap),
                        !.reg = @ \cup {id}] ]

\* Transaction.lockRecordInternal
lockRecordInternal(w, tx, t, h) ==
  IF w.status[tx] # "active"
    THEN [w |-> w, err |-> "not active", holder |-> 0]
  ELSE LET l == Lock(w.heap[h], tx)
       IN  IF ~l.ok
             THEN [w |-> w, err |-> "locked", holder |-> l.holder]
             ELSE [w |-> [w EXCEPT !.heap[h] = l.r,
                                   !.locked[tx] = @ \cup {Key(t, w.heap[h])}],
                   err |-> "", holder |-> 0]

\* Transaction.LockRecord
LockRecord(w, tx, t, h) == lockRecordInternal(w, tx, t, h)

\* append(tx.StagedRecords[table.TableName], staging), the record allocated
\* as the next handle.
AddStaged(w, tx, t, r, src) ==
  LET h == Len(w.heap) + 1
      old == IF t.name \in DOMAIN w.staged[tx] THEN w.staged[tx][t.name] ELSE <<>>
  IN  [w EXCEPT !.heap = Append(@, r),
                !.htab = Append(@, t),
                !.hsrc = Append(@, src),
                !.staged[tx] = Put(@, t.name, Append(old, h))]

\* The loop of StageUpdate over the updates, here in the order given.
RECURSIVE ApplyUpdates(_, _, _, _)
ApplyUpdates(w, r, t, updates) ==
  IF updates = <<>> THEN [w |-> w, r |-> r, err |-> ""]
  ELSE LET field == Head(updates).field
           value == Head(updates).value
       IN  IF field \notin FieldNames(Fields(t))
             THEN [w |-> w, r |-> r, err |-> "no field"]
           ELSE IF FieldByName(Fields(t), field).type = "ref"
             THEN IF value.k = "nil"
                    THEN ApplyUpdates(w, [r EXCEPT !.meta = Put(@, field, TRUE),
                                                   !.data = Del(@, field),
                                                   !.ref = Del(@, field)],
                                      t, Tail(updates))
                  ELSE IF value.k # "string"
                    THEN [w |-> w, r |-> r, err |-> "type"]
                  ELSE LET wr == WriteRefData(w, r, t, field, value.s)
                       IN  ApplyUpdates(wr.w, [wr.r EXCEPT !.data = Put(@, field, value),
                                                           !.meta = Put(@, field, FALSE)],
                                        t, Tail(updates))
           ELSE IF value.k = "nil"
             THEN ApplyUpdates(w, [r EXCEPT !.meta = Put(@, field, TRUE),
                                            !.data = Del(@, field)],
                               t, Tail(updates))
           ELSE ApplyUpdates(w, [r EXCEPT !.data = Put(@, field, value),
                                          !.meta = Put(@, field, FALSE)],
                             t, Tail(updates))

\* Whether the table file of t holds a record with this id (for the claims).
InFile(w, t, id) == \E i \in DOMAIN w.files[t] : w.files[t][i].id = id

Origin(kind, w, t, r) == [kind |-> kind, src |-> r.id, infile |-> InFile(w, t, r.id)]

\* Transaction.StageUpdate, the clock reading t0 taken by Clone.
StageUpdate(w, tx, t, h, updates, t0) ==
  IF w.status[tx] # "active"
    THEN [w |-> w, err |-> "not active", holder |-> 0]
  ELSE LET l == IF Key(t, w.heap[h]) \notin w.locked[tx]
                  THEN lockRecordInternal(w, tx, t, h)
                  ELSE [w |-> w, err |-> "", holder |-> 0]
       IN  IF l.err # "" THEN l
           ELSE LET c == Clone(l.w.heap[h], tx, t0)
                IN  IF ~c.ok THEN [w |-> l.w, err |-> "locked", holder |-> c.holder]
                    ELSE LET u == ApplyUpdates(l.w, c.r, t, updates)
                         IN  IF u.err # "" THEN [w |-> u.w, err |-> u.err, holder |-> 0]
                             ELSE [w |-> AddStaged(u.w, tx, t, u.r,
                                                   Origin("update", w, t, w.heap[h])),
                                   err |-> "", holder |-> 0]

\* Transaction.StageDelete
StageDelete(w, tx, t, h, t0) ==
  IF w.status[tx] # "active"
    THEN [w |-> w, err |-> "not active", holder |-> 0]
  ELSE LET l == IF Key(t, w.heap[h]) \notin w.locked[tx]
                  THEN lockRecordInternal(w, tx, t, h)
                  ELSE [w |-> w, err |-> "", holder |-> 0]
       IN  IF l.err # "" THEN l
           ELSE LET c == Clone(l.w.heap[h], tx, t0)
                IN  IF ~c.ok THEN [w |-> l.w, err |-> "locked", holder |-> c.holder]
                    ELSE [w |-> AddStaged(l.w, tx, t, [c.r EXCEPT !.del = TRUE],
                                          Origin("delete", w, t, w.heap[h])),
                          err |-> "", holder |-> 0]

\* The loop of StageInsert over the ref fields of the table.
RECURSIVE InsertRefs(_, _, _, _, _)
InsertRefs(w, r, t, data, fields) ==
  IF fields = <<>> THEN [w |-> w, r |-> r, err |-> ""]
  ELSE LET f == Head(fields)
       IN  IF f.type # "ref" \/ f.name \notin DOMAIN data
             THEN InsertRefs(w, r, t, data, Tail(fields))
           ELSE IF data[f.name].k = "nil"
             THEN InsertRefs(w, r, t, data, Tail(fields))
           ELSE IF data[f.name].k # "string"
             THEN [w |-> w, r |-> r, err |-> "type"]
           ELSE LET wr == WriteRefData(w, r, t, f.name, data[f.name].s)
                IN  InsertRefs(wr.w, wr.r, t, data, Tail(fields))

\* Transaction.StageInsert, the clock reading t0.
StageInsert(w, tx, t, data, t0) ==
  IF w.status[tx] # "active"
    THEN [w |-> w, err |-> "not active", holder |-> 0]
  ELSE LET w1 == [w EXCEPT !.recCounter = @ + 1]
           id == t0 + w1.recCounter
           rec == [NewRecord(id, data) EXCEPT !.lck = TRUE, !.tx = tx]
           i == InsertRefs(w1, rec, t, data, Fields(t))
       IN  IF i.err # "" THEN [w |-> i.w, err |-> i.err, holder |-> 0]
           ELSE [w |-> AddStaged(i.w, tx, t, i.r, Origin("insert", w, t, rec)),
                 err |-> "", holder |-> 0]

IsCurrent(r) == r.cur /\ ~r.del

\* The commit loop's test for "this staged record updates that existing one".
Supersedes(staged, existing) ==
  existing.data["id"] = staged.data["id"] /\ ~staged.del

\* Commit's work on one table after it has read `existing`: demote, mark the
\* staged records, write existing ++ staged.
CommitWrite(w, tx, t, hs, existing) ==
  LET demoted == [i \in DOMAIN existing |->
                    IF \E j \in DOMAIN hs : Supersedes(w.heap[hs[j]], existing[i])
                      THEN [existing[i] EXCEPT !.cur = FALSE]
                      ELSE existing[i]]
      heap2 == [h \in DOMAIN w.heap |->
                  IF h \in Range(hs)
                    THEN [w.heap[h] EXCEPT !.cur = TRUE, !.lck = FALSE, !.tx = 0]
                    ELSE w.heap[h]]
      w2 == [w EXCEPT !.heap = heap2]
      wr == WriteRecords(w2, t, demoted \o [j \in DOMAIN hs |-> heap2[hs[j]]])
  IN  IF ~wr.ok THEN [ok |-> FALSE, w |-> w2] ELSE [ok |-> TRUE, w |-> wr.w]

\* The body of Commit's loop over the staged tables, in map order `order`.
RECURSIVE CommitTables(_, _, _)
CommitTables(w, tx, order) ==
  IF order = <<>> THEN [w |-> [w EXCEPT !.status[tx] = "committed"], err |-> ""]
  ELSE LET hs == w.staged[tx][Head(order)]
           got == GetTable(w, <<Head(order)>>)
       IN  IF ~got.ok THEN [w |-> w, err |-> "get table"]
           ELSE LET cw == CommitWrite(w, tx, got.table, hs, GetAllRecords(w, got.table))
                IN  IF ~cw.ok THEN [w |-> cw.w, err |-> "write"]
                    ELSE CommitTables(cw.w, tx, Tail(order))

\* Variants of Commit: one that skips the status check, and one that sets the
\* status before the loop over the staged tables.
CommitUnchecked(w, tx, order) == CommitTables(w, tx, order)

CommitStatusFirst(w, tx, order) ==
  IF w.status[tx] # "active"
    THEN [w |-> w, err |-> "not active"]
    ELSE CommitTables([w EXCEPT !.status[tx] = "committed"], tx, order)

\* Transaction.Commit
Commit(w, tx, order) ==
  IF w.status[tx] # "active"
    THEN [w |-> w, err |-> "not active"]
    ELSE CommitTables(w, tx, order)

\* Rollback's work on one table after it has read `existing`: clear the
\* locks this transaction holds and write the records back.
RollbackWrite(w, tx, t, existing) ==
  LET unlocked == [i \in DOMAIN existing |->
                     IF existing[i].lck /\ existing[i].tx = tx
                       THEN Unlock(existing[i])
                       ELSE existing[i]]
  IN  WriteRecords(w, t, unlocked)

\* The body of Rollback's loop over the staged tables.
RECURSIVE RollbackTables(_, _, _)
RollbackTables(w, tx, order) ==
  IF order = <<>> THEN [w |-> [w EXCEPT !.status[tx] = "rolled back"], err |-> ""]
  ELSE LET got == GetTable(w, <<Head(order)>>)
       IN  IF ~got.ok THEN [w |-> w, err |-> "get table"]
           ELSE LET wr == RollbackWrite(w, tx, got.table, GetAllRecords(w, got.table))
                IN  IF ~wr.ok THEN [w |-> w, err |-> "write"]
                    ELSE RollbackTables(wr.w, tx, Tail(order))

\* Transaction.Rollback
Rollback(w, tx, order) ==
  IF w.status[tx] # "active"
    THEN [w |-> w, err |-> "not active"]
    ELSE RollbackTables(w, tx, order)

\* ---------------------------------------------------------- table manager

\* A variant of CommitTransaction that does not look the transaction up.
CommitUnregistered(w, tx, order) ==
  LET c == Commit(w, tx, order)
  IN  IF c.err # "" THEN c
      ELSE [w |-> [c.w EXCEPT !.reg = @ \ {tx}], err |-> ""]

\* TableManager.CommitTransaction
CommitTransaction(w, tx, order) ==
  IF tx \notin w.reg THEN [w |-> w, err |-> "not found"]
  ELSE LET c == Commit(w, tx, order)
       IN  IF c.err # "" THEN c
           ELSE [w |-> [c.w EXCEPT !.reg = @ \ {tx}], err |-> ""]

\* TableManager.RollbackTransaction
RollbackTransaction(w, tx, order) ==
  IF tx \notin w.reg THEN [w |-> w, err |-> "not found"]
  ELSE LET c == Rollback(w, tx, order)
       IN  IF c.err # "" THEN c
           ELSE [w |-> [c.w EXCEPT !.reg = @ \ {tx}], err |-> ""]

\* The one order in which a one-shot transaction's single table is walked.
StagedOrder(w, tx) == CHOOSE o \in Orders(DOMAIN w.staged[tx]) : TRUE

\* The tail shared by InsertRecord, UpdateRecord and DeleteRecord: roll back
\* when staging failed, commit otherwise.
Finish(st, tx) ==
  IF st.err # ""
    THEN [w |-> RollbackTransaction(st.w, tx, StagedOrder(st.w, tx)).w,
          err |-> st.err, holder |-> st.holder]
    ELSE LET c == CommitTransaction(st.w, tx, StagedOrder(st.w, tx))
         IN  [w |-> c.w, err |-> c.err, holder |-> 0]

\* TableManager.InsertRecord
InsertRecord(w, t, data, t0) ==
  LET b == BeginTransaction(w)
  IN  Finish(StageInsert(b.w, b.tx, t, data, t0), b.tx)

\* TableManager.UpdateRecord
UpdateRecord(w, t, h, updates, t0) ==
  LET b == BeginTransaction(w)
  IN  Finish(StageUpdate(b.w, b.tx, t, h, updates, t0), b.tx)

\* TableManager.DeleteRecord
DeleteRecord(w, t, h, t0) ==
  LET b == BeginTransaction(w)
  IN  Finish(StageDelete(b.w, b.tx, t, h, t0), b.tx)

\* TableManager.GetCurrentRecords
GetCurrentRecords(w, t) == SelectSeq(GetAllRecords(w, t), IsCurrent)

\* --------------------------------------------------------- cleanup worker
\* The copy loop of cleanupRefField over the retained records: the new
\* sidecar, the old-range -> new-range map and the records as rewritten.
RECURSIVE CopyRanges(_, _, _, _, _, _)
CopyRanges(records, fieldName, refData, out, offsetMap, done) ==
  IF records = <<>> THEN [bytes |-> out, records |-> done]
  ELSE LET r == Head(records)
           rest == Tail(records)
       IN  IF fieldName \notin DOMAIN r.ref
             THEN CopyRanges(rest, fieldName, refData, out, offsetMap, Append(done, r))
           ELSE LET offsets == r.ref[fieldName]
                IN  IF offsets \in DOMAIN offsetMap
                      THEN CopyRanges(rest, fieldName, refData, out, offsetMap,
                                      Append(done, [r EXCEPT !.ref[fieldName] = offsetMap[offsets]]))
                    ELSE IF offsets[1] < 0 \/ offsets[2] > Len(refData) \/ offsets[1] > offsets[2]
                      THEN CopyRanges(rest, fieldName, refData, out, offsetMap, Append(done, r))
                    ELSE LET data == Slice(refData, offsets[1], offsets[2])
                             newOffsets == <<Len(out), Len(out) + Len(data)>>
                         IN  CopyRanges(rest, fieldName, refData, out \o data,
                                        Put(offsetMap, offsets, newOffsets),
                                        Append(done, [r EXCEPT !.ref[fieldName] = newOffsets]))

\* CleanupWorker.cleanupRefField: the sidecar after the call and the
\* retained records as rewritten in memory.
cleanupRefField(refData, fieldName, records) ==
  IF ~\E i \in DOMAIN records : fieldName \in DOMAIN records[i].ref
    THEN [bytes |-> refData, records |-> records]
    ELSE CopyRanges(records, fieldName, refData, <<>>, EmptyMap, <<>>)

\* CleanupWorker.cleanupTable: the table file is rewritten from the retained
\* records first, the sidecars of the ref fields afterwards.
cleanupTable(w, t) ==
  LET records == GetAllRecords(w, t)
      currentRecords == SelectSeq(records, IsCurrent)
      wr == WriteRecords(w, t, currentRecords)
      refs == { f \in Range(Fields(t)) : f.type = "ref" }
  IN  IF Len(currentRecords) = Len(records) \/ ~wr.ok
        THEN [file |-> w.files[t], side |-> w.side[t]]
        ELSE [file |-> wr.w.files[t],
              side |-> [n \in DOMAIN w.side[t] |->
                          IF \E f \in refs : f.name = n
                            THEN cleanupRefField(w.side[t][n], n, currentRecords).bytes
                            ELSE w.side[t][n]]]

\* CleanupWorker.performCleanup: every table of every schema.
performCleanup(w) ==
  [w EXCEPT !.files = [t \in DOMAIN w.files |->
                         IF t \in w.tables THEN cleanupTable(w, t).file ELSE w.files[t]],
            !.side = [t \in DOMAIN w.side |->
                        IF t \in w.tables THEN cleanupTable(w, t).side ELSE w.side[t]]]

\* ------------------------------------------------------------------ state
VARIABLES
  tables,      \* the tables of the data root (config file and data file)
  files,       \* table -> the serialized records of its data file
  side,        \* table -> ref field -> the bytes of its sidecar
  heap,        \* the Record objects, by handle
  htab,        \* handle -> the Table the caller uses it with
  hsrc,        \* handle -> how the record came to be (history, for the claims)
  status,      \* transaction -> Status
  locked,      \* transaction -> LockedRecords, as "table name:record id" keys
  staged,      \* transaction -> StagedRecords, table name -> handles
  reg,         \* TableManager.transactions
  txCounter,   \* transactionCounter
  recCounter,  \* recordIDCounter
  now,         \* the last reading of the clock
  inserts,     \* the data the callers of this run insert
  conc,        \* the goroutines that run concurrently: where each one is
  wk,          \* the cleanup workers of the manager and their goroutines
  qry,         \* the query a caller has built and what GetAll returned
  cat,         \* the files of a schema directory, as CreateTable sees them
  disk         \* one table file, its temporary file and the goroutines writing it

vars == << tables, files, side, heap, htab, hsrc, status, locked, staged, reg,
           txCounter, recCounter, now, inserts, conc, wk, qry, cat, disk >>

World == [ tables |-> tables, files |-> files, side |-> side, heap |-> heap,
           htab |-> htab, hsrc |-> hsrc, status |-> status, locked |-> locked,
           staged |-> staged, reg |-> reg, txCounter |-> txCounter,
           recCounter |-> recCounter ]

\* The state of the store becomes w.
Writes(w) ==
  /\ inserts' = inserts
  /\ tables' = w.tables
  /\ files' = w.files
  /\ side' = w.side
  /\ heap' = w.heap
  /\ htab' = w.htab
  /\ hsrc' = w.hsrc
  /\ status' = w.status
  /\ locked' = w.locked
  /\ staged' = w.staged
  /\ reg' = w.reg
  /\ txCounter' = w.txCounter
  /\ recCounter' = w.recCounter

\* A call that runs from start to end with no other goroutine in between.
Becomes(w) == Writes(w) /\ UNCHANGED << conc, wk, qry, cat, disk >>

\* ----------------------------------------------------------------- inputs
UpdateData == { << [field |-> "val", value |-> IntV(2)] >>,
                << [field |-> "body", value |-> StrV(<<"d">>)] >> }

\* Updates a caller may pass that do not fit the table: a string for the int
\* field, an int for the ref field, a field the table does not have.
MistypedUpdates == { << [field |-> "val", value |-> StrV(<<"x">>)] >>,
                     << [field |-> "body", value |-> IntV(2)] >>,
                     << [field |-> "nope", value |-> IntV(2)] >> }

\* A clock reading: not before the last one.
Readings == { t \in {now, now + 1} : t <= MaxClock }

Txs == 1..txCounter

Handles == DOMAIN heap

\* No goroutine besides the caller's: every call runs from start to end.
NoThreads == [pc |-> EmptyMap]

\* No cleanup worker was ever started: tm.cleanupWorker is nil.
NoWorker ==
  [ worker |-> 0,        \* tm.cleanupWorker: nil (0) or the n-th worker made
    isRunning |-> <<>>,  \* worker -> CleanupWorker.isRunning
    stopChan |-> <<>>,   \* worker -> its stopChan: "open" or "closed"
    wg |-> <<>>,         \* worker -> the counter of its WaitGroup
    tick |-> <<>>,       \* worker -> a tick waits in its ticker's channel
    go |-> <<>>,         \* worker -> where its goroutine is
    caller |-> "idle" ]  \* the caller: idle, or waiting in Stop's wg.Wait()

\* No query was built.
NoQuery == <<>>

\* A schema directory with no table in it.
NoCatalog ==
  [ schema |-> TRUE,   \* the schema directory exists
    data |-> EmptyMap,    \* table name -> the content of its data file
    conf |-> EmptyMap,    \* table name -> the fields in its config file
    side |-> EmptyMap ]   \* <<table name, field name>> -> the content of the sidecar

\* No table file is being written step by step: every WriteRecords runs from
\* start to end.
NoDisk == [inode |-> <<>>, table |-> 0, temp |-> 0, calls |-> 0, w |-> EmptyMap]

\* The state after NewTableManager on the data root of one of the runs R.
Starts(R) ==
  /\ \E run \in R :
       /\ tables = run.root.tables
       /\ files = run.root.files
       /\ side = run.root.side
       /\ inserts = run.inserts
  /\ heap = <<>>
  /\ htab = <<>>
  /\ hsrc = <<>>
  /\ status = EmptyMap
  /\ locked = EmptyMap
  /\ staged = EmptyMap
  /\ reg = {}
  /\ txCounter = 0
  /\ recCounter = 0
  /\ now = FirstReading
  /\ conc = NoThreads
  /\ wk = NoWorker
  /\ qry = NoQuery
  /\ cat = NoCatalog
  /\ disk = NoDisk

Init == Starts(Runs)

InitMistyped == Starts(MistypedRuns)

\* ---------------------------------------------------------------- actions
DoBeginTransaction ==
  /\ txCounter < MaxTx
  /\ LET b == BeginTransaction(World)
     IN  /\ Becomes(b.w)
  /\ UNCHANGED now

DoLockRecord ==
  \E tx \in Txs, h \in Handles :
    LET r == LockRecord(World, tx, htab[h], h)
    IN  /\ Becomes(r.w)
        /\ UNCHANGED now

DoStageInsert ==
  \E tx \in Txs, t \in tables, d \in inserts, t0 \in Readings :
    /\ Len(heap) < MaxHandles
    /\ LET r == StageInsert(World, tx, t, d, t0)
       IN  /\ Becomes(r.w)
    /\ now' = t0

DoStageUpdate ==
  \E tx \in Txs, h \in Handles, u \in UpdateData, t0 \in Readings :
    /\ Len(heap) < MaxHandles
    /\ LET r == StageUpdate(World, tx, htab[h], h, u, t0)
       IN  /\ Becomes(r.w)
    /\ now' = t0

DoStageDelete ==
  \E tx \in Txs, h \in Handles, t0 \in Readings :
    /\ Len(heap) < MaxHandles
    /\ LET r == StageDelete(World, tx, htab[h], h, t0)
       IN  /\ Becomes(r.w)
    /\ now' = t0

DoCommit ==
  \E tx \in Txs : \E o \in Orders(DOMAIN staged[tx]) :
    LET r == Commit(World, tx, o)
    IN  /\ Becomes(r.w)
        /\ UNCHANGED now

DoRollback ==
  \E tx \in Txs : \E o \in Orders(DOMAIN staged[tx]) :
    LET r == Rollback(World, tx, o)
    IN  /\ Becomes(r.w)
        /\ UNCHANGED now

DoCommitTransaction ==
  \E tx \in Txs : \E o \in Orders(DOMAIN staged[tx]) :
    LET r == CommitTransaction(World, tx, o)
    IN  /\ Becomes(r.w)
        /\ UNCHANGED now

DoRollbackTransaction ==
  \E tx \in Txs : \E o \in Orders(DOMAIN staged[tx]) :
    LET r == RollbackTransaction(World, tx, o)
    IN  /\ Becomes(r.w)
        /\ UNCHANGED now

DoInsertRecord ==
  \E t \in tables, d \in inserts, t0 \in Readings :
    /\ txCounter < MaxTx
    /\ Len(heap) < MaxHandles
    /\ LET r == InsertRecord(World, t, d, t0)
       IN  /\ Becomes(r.w)
    /\ now' = t0

DoUpdateRecord ==
  \E h \in Handles, u \in UpdateData, t0 \in Readings :
    /\ txCounter < MaxTx
    /\ Len(heap) < MaxHandles
    /\ LET r == UpdateRecord(World, htab[h], h, u, t0)
       IN  /\ Becomes(r.w)
    /\ now' = t0

DoDeleteRecord ==
  \E h \in Handles, t0 \in Readings :
    /\ txCounter < MaxTx
    /\ Len(heap) < MaxHandles
    /\ LET r == DeleteRecord(World, htab[h], h, t0)
       IN  /\ Becomes(r.w)
    /\ now' = t0

\* A caller keeps one of the records GetAllRecords (or GetCurrentRecords,
\* GetRecordByID) returned: a fresh Record object.
DoGetRecord ==
  \E t \in tables : \E i \in DOMAIN files[t] :
    /\ Len(heap) < MaxHandles
    /\ LET r == GetAllRecords(World, t)[i]
       IN  /\ heap' = Append(heap, r)
           /\ htab' = Append(htab, t)
           /\ hsrc' = Append(hsrc, [kind |-> "read", src |-> r.id, infile |-> TRUE])
    /\ UNCHANGED << tables, files, side, status, locked, staged, reg,
                    txCounter, recCounter, now, inserts, conc, wk, qry, cat, disk >>

\* One cycle of the cleanup worker.
DoCleanup ==
  /\ Becomes(performCleanup(World))
  /\ UNCHANGED now

Next ==
  \/ DoBeginTransaction
  \/ DoLockRecord
  \/ DoStageInsert
  \/ DoStageUpdate
  \/ DoStageDelete
  \/ DoCommit
  \/ DoRollback
  \/ DoCommitTransaction
  \/ DoRollbackTransaction
  \/ DoInsertRecord
  \/ DoUpdateRecord
  \/ DoDeleteRecord
  \/ DoGetRecord
  \/ DoCleanup

Spec == Init /\ [][Next]_vars

\* The same operations in the run that inserts mistyped data.
SpecMistyped == InitMistyped /\ [][Next]_vars

\* The distinct ranges of the ref field that the given records reference.
UsedRanges(records, fieldName) ==
  { records[i].ref[fieldName] :
      i \in { j \in DOMAIN records : fieldName \in DOMAIN records[j].ref } }

\* ------------------------------------------------- concurrent goroutines
\* Several goroutines work on the one table testSchema:t: each of MaxThreads
\* callers runs a transaction of its own (begin, StageInsert, then Commit or
\* Rollback, called on the transaction or through the manager), and the
\* cleanup worker runs its cycles.  A step is what a goroutine does from one
\* access to a file to its next one.
MaxThreads == 2

Threads == 1..MaxThreads

TheTable == Tbl(DefaultSchema, "t")

\* What an earlier run left that inserted val 7 and body "ab" at clock
\* reading 0 and deleted the record at reading 2: the record as the commit of
\* the delete rewrote it, and the tombstone.
CompactableRoot ==
  [ tables |-> {TheTable},
    files |-> [t \in AllTables |->
                 IF t = TheTable
                   THEN << [ id |-> 1, cur |-> TRUE, del |-> FALSE, lck |-> FALSE, tx |-> 0,
                             cells |-> [val |-> [null |-> FALSE, pay |-> 7],
                                        body |-> [null |-> FALSE, pay |-> <<0, 0>>]] ],
                           [ id |-> 2, cur |-> TRUE, del |-> TRUE, lck |-> FALSE, tx |-> 0,
                             cells |-> [val |-> [null |-> FALSE, pay |-> 7],
                                        body |-> [null |-> FALSE, pay |-> <<0, 2>>]] ] >>
                   ELSE <<>>],
    side |-> [t \in AllTables |->
                IF t = TheTable THEN [body |-> <<"a", "b">>] ELSE [body |-> <<>>]] ]

\* The data caller th inserts: each caller its own payload.
Payload(th) == IF th = 1 THEN <<"c">> ELSE <<"d", "e">>

ThreadData(th) == [val |-> IntV(42), body |-> StrV(Payload(th))]

InitConc ==
  /\ tables = CompactableRoot.tables
  /\ files = CompactableRoot.files
  /\ side = CompactableRoot.side
  /\ inserts = { ThreadData(th) : th \in Threads }
  /\ heap = <<>>
  /\ htab = <<>>
  /\ hsrc = <<>>
  /\ status = EmptyMap
  /\ locked = EmptyMap
  /\ staged = EmptyMap
  /\ reg = {}
  /\ txCounter = 0
  /\ recCounter = 0
  /\ now = FirstReading
  /\ conc = [ pc |-> [th \in Threads |-> "start"],    \* where caller th is
              tx |-> [th \in Threads |-> 0],          \* its transaction
              via |-> [th \in Threads |-> "tx"],      \* Commit called on "tx" or "tm"
              rec |-> [th \in Threads |-> NewRecord(0, EmptyMap)],  \* StageInsert's record
              size |-> [th \in Threads |-> 0],        \* WriteRefData's stat.Size()
              snap |-> [th \in Threads |-> <<>>],     \* existingRecords
              mu |-> 0,                               \* holder of transactionsMu
              gc |-> "idle",                          \* where the cleanup worker is
              gsnap |-> <<>>,                         \* its currentRecords
              gside |-> <<>>,                         \* its refData
              compacted |-> FALSE ]                   \* it has rewritten the file
  /\ wk = NoWorker
  /\ qry = NoQuery
  /\ cat = NoCatalog
  /\ disk = NoDisk

\* TableManager.BeginTransaction
ThreadBegin(th) ==
  /\ conc.pc[th] = "start"
  /\ LET b == BeginTransaction(World)
     IN  /\ Writes(b.w)
         /\ conc' = [conc EXCEPT !.pc[th] = "stage", !.tx[th] = b.tx]
  /\ UNCHANGED << now, wk, qry, cat, disk >>

\* StageInsert up to WriteRefData's refFile.Stat(): the id, the record, the
\* size of the sidecar.
ThreadStat(th) ==
  /\ conc.pc[th] = "stage"
  /\ status[conc.tx[th]] = "active"
  /\ \E t0 \in Readings :
       LET w1 == [World EXCEPT !.recCounter = @ + 1]
           id == t0 + w1.recCounter
           rec == [NewRecord(id, ThreadData(th)) EXCEPT !.lck = TRUE, !.tx = conc.tx[th]]
       IN  /\ Writes(w1)
           /\ conc' = [conc EXCEPT !.pc[th] = "append",
                                   !.rec[th] = rec,
                                   !.size[th] = Len(side[TheTable]["body"])]
           /\ now' = t0
  /\ UNCHANGED << wk, qry, cat, disk >>

\* WriteRefData from refFile.Write on, and the rest of StageInsert: the bytes
\* go to the end of the sidecar, the offsets start at the size read before.
ThreadAppend(th) ==
  /\ conc.pc[th] = "append"
  /\ LET value == Payload(th)
         start == conc.size[th]
         rec == [conc.rec[th] EXCEPT !.ref = Put(@, "body", <<start, start + Len(value)>>)]
         w1 == [World EXCEPT !.side[TheTable]["body"] = @ \o value]
     IN  /\ Writes(AddStaged(w1, conc.tx[th], TheTable, rec,
                             Origin("insert", World, TheTable, rec)))
         /\ conc' = [conc EXCEPT !.pc[th] = "ready", !.rec[th] = rec]
  /\ UNCHANGED << now, wk, qry, cat, disk >>

\* Commit (on the transaction, or through CommitTransaction, which holds
\* transactionsMu) up to table.GetAllRecords().
ThreadCommitRead(th) ==
  /\ conc.pc[th] = "ready"
  /\ \E via \in {"tx", "tm"} :
       /\ via = "tm" => (conc.mu = 0 /\ conc.tx[th] \in reg)
       /\ LET got == GetTable(World, <<"t">>)
          IN  /\ got.ok
              /\ conc' = [conc EXCEPT !.pc[th] = "cwrite",
                                      !.via[th] = via,
                                      !.mu = IF via = "tm" THEN th ELSE @,
                                      !.snap[th] = GetAllRecords(World, got.table)]
  /\ Writes(World)
  /\ UNCHANGED << now, wk, qry, cat, disk >>

\* The rest of Commit: demote, mark, WriteRecords, the status; and of
\* CommitTransaction: the registry entry, the mutex.
ThreadCommitWrite(th) ==
  /\ conc.pc[th] = "cwrite"
  /\ LET tx == conc.tx[th]
         cw == CommitWrite(World, tx, TheTable, staged[tx]["t"], conc.snap[th])
         w2 == [cw.w EXCEPT !.status[tx] = "committed",
                            !.reg = IF conc.via[th] = "tm" THEN @ \ {tx} ELSE @]
     IN  /\ cw.ok
         /\ Writes(w2)
         /\ conc' = [conc EXCEPT !.pc[th] = "done",
                                 !.mu = IF conc.via[th] = "tm" THEN 0 ELSE @]
  /\ UNCHANGED << now, wk, qry, cat, disk >>

\* Rollback (on the transaction or through RollbackTransaction) up to
\* table.GetAllRecords().
ThreadRollbackRead(th) ==
  /\ conc.pc[th] = "ready"
  /\ \E via \in {"tx", "tm"} :
       /\ via = "tm" => (conc.mu = 0 /\ conc.tx[th] \in reg)
       /\ LET got == GetTable(World, <<"t">>)
          IN  /\ got.ok
              /\ conc' = [conc EXCEPT !.pc[th] = "rwrite",
                                      !.via[th] = via,
                                      !.mu = IF via = "tm" THEN th ELSE @,
                                      !.snap[th] = GetAllRecords(World, got.table)]
  /\ Writes(World)
  /\ UNCHANGED << now, wk, qry, cat, disk >>

\* The rest of Rollback and of RollbackTransaction.
ThreadRollbackWrite(th) ==
  /\ conc.pc[th] = "rwrite"
  /\ LET tx == conc.tx[th]
         wr == RollbackWrite(World, tx, TheTable, conc.snap[th])
         w2 == [wr.w EXCEPT !.status[tx] = "rolled back",
                            !.reg = IF conc.via[th] = "tm" THEN @ \ {tx} ELSE @]
     IN  /\ wr.ok
         /\ Writes(w2)
         /\ conc' = [conc EXCEPT !.pc[th] = "done",
                                 !.mu = IF conc.via[th] = "tm" THEN 0 ELSE @]
  /\ UNCHANGED << now, wk, qry, cat, disk >>

\* cleanupTable up to the filter: a table with only current records is
\* skipped.
CleanupRead ==
  /\ conc.gc = "idle"
  /\ LET records == GetAllRecords(World, TheTable)
         currentRecords == SelectSeq(records, IsCurrent)
     IN  /\ Len(currentRecords) # Len(records)
         /\ conc' = [conc EXCEPT !.gc = "file", !.gsnap = currentRecords]
  /\ Writes(World)
  /\ UNCHANGED << now, wk, qry, cat, disk >>

\* cleanupTable: the retained records replace the table file.
CleanupWriteFile ==
  /\ conc.gc = "file"
  /\ LET wr == WriteRecords(World, TheTable, conc.gsnap)
     IN  /\ wr.ok
         /\ Writes(wr.w)
  /\ conc' = [conc EXCEPT !.gc = "ref", !.compacted = TRUE]
  /\ UNCHANGED << now, wk, qry, cat, disk >>

\* cleanupRefField up to os.ReadFile; with no range in use it returns.
CleanupReadRef ==
  /\ conc.gc = "ref"
  /\ conc' = [conc EXCEPT !.gsnap = IF UsedRanges(conc.gsnap, "body") = {} THEN <<>> ELSE @,
                          !.gc = IF UsedRanges(conc.gsnap, "body") = {} THEN "idle" ELSE "refw",
                          !.gside = IF UsedRanges(conc.gsnap, "body") = {}
                                      THEN <<>> ELSE side[TheTable]["body"]]
  /\ Writes(World)
  /\ UNCHANGED << now, wk, qry, cat, disk >>

\* cleanupRefField: the copied ranges replace the sidecar.
CleanupWriteRef ==
  /\ conc.gc = "refw"
  /\ Writes([World EXCEPT !.side[TheTable]["body"] =
                            cleanupRefField(conc.gside, "body", conc.gsnap).bytes])
  /\ conc' = [conc EXCEPT !.gc = "idle", !.gsnap = <<>>, !.gside = <<>>]
  /\ UNCHANGED << now, wk, qry, cat, disk >>

NextConc ==
  \/ \E th \in Threads : ThreadBegin(th)
  \/ \E th \in Threads : ThreadStat(th)
  \/ \E th \in Threads : ThreadAppend(th)
  \/ \E th \in Threads : ThreadCommitRead(th)
  \/ \E th \in Threads : ThreadCommitWrite(th)
  \/ \E th \in Threads : ThreadRollbackRead(th)
  \/ \E th \in Threads : ThreadRollbackWrite(th)
  \/ CleanupRead
  \/ CleanupWriteFile
  \/ CleanupReadRef
  \/ CleanupWriteRef

SpecConc == InitConc /\ [][NextConc]_vars

\* ------------------------------------------------- cleanup worker lifecycle
\* How many cleanup workers a table manager makes, one after the other.
MaxWorkers == 3

Workers == 1..MaxWorkers

\* NewCleanupWorker and CleanupWorker.Start: a worker with an open stop
\* channel, marked running, whose WaitGroup counts the goroutine it spawns.
\* Start's own isRunning check is on an object made one line before.
NewWorkerStarted(k) ==
  [k EXCEPT !.worker = Len(k.go) + 1,
            !.isRunning = Append(@, TRUE),
            !.stopChan = Append(@, "open"),
            !.wg = Append(@, 1),
            !.tick = Append(@, FALSE),
            !.go = Append(@, "select")]

\* TableManager.StartCleanupWorker with the check of tm.cleanupWorker left out.
StartUnchecked(k) == [k |-> NewWorkerStarted(k), err |-> ""]

\* TableManager.StartCleanupWorker
StartCleanupWorker(k) ==
  IF k.worker # 0
  THEN [k |-> k, err |-> "cleanup worker is already running"]
  ELSE [k |-> NewWorkerStarted(k), err |-> ""]

\* TableManager.StopCleanupWorker and CleanupWorker.Stop up to wg.Wait(): the
\* checks, and close(w.stopChan).
StopSignal(k) ==
  IF k.worker = 0 \/ ~k.isRunning[k.worker]
  THEN [k |-> k, err |-> "cleanup worker is not running"]
  ELSE [k |-> [k EXCEPT !.stopChan[k.worker] = "closed", !.caller = "waiting"],
        err |-> ""]

\* wg.Wait() lets the caller go on without waiting.
WaitSkipped(k) ==
  TRUE

\* wg.Wait() lets the caller go on: the counter of the WaitGroup is zero.
WaitDone(k) ==
  k.wg[k.worker] = 0

\* CleanupWorker.Stop after wg.Wait() and the rest of StopCleanupWorker.
StopReturn(k) ==
  [k EXCEPT !.isRunning[k.worker] = FALSE, !.worker = 0, !.caller = "idle"]

InitWorker ==
  /\ tables = CompactableRoot.tables
  /\ files = CompactableRoot.files
  /\ side = CompactableRoot.side
  /\ inserts = {GoodData}
  /\ heap = <<>>
  /\ htab = <<>>
  /\ hsrc = <<>>
  /\ status = EmptyMap
  /\ locked = EmptyMap
  /\ staged = EmptyMap
  /\ reg = {}
  /\ txCounter = 0
  /\ recCounter = 0
  /\ now = FirstReading
  /\ conc = NoThreads
  /\ wk = NoWorker
  /\ qry = NoQuery
  /\ cat = NoCatalog
  /\ disk = NoDisk

Store == << tables, files, side, heap, htab, hsrc, status, locked, staged, reg,
            txCounter, recCounter, now, inserts, conc, qry, cat, disk >>

CallStartCleanupWorker ==
  /\ wk.caller = "idle"
  /\ Len(wk.go) < MaxWorkers
  /\ wk' = StartCleanupWorker(wk).k
  /\ UNCHANGED Store

CallStopCleanupWorker ==
  /\ wk.caller = "idle"
  /\ wk' = StopSignal(wk).k
  /\ UNCHANGED Store

ReturnStopCleanupWorker ==
  /\ wk.caller = "waiting"
  /\ WaitDone(wk)
  /\ wk' = StopReturn(wk)
  /\ UNCHANGED Store

\* The caller reads a record, deletes one: what the worker cleans up.
CallGetRecord == wk.caller = "idle" /\ DoGetRecord

CallDeleteRecord == wk.caller = "idle" /\ DoDeleteRecord

\* The ticker of worker g sends the time on its channel, which holds one.
Tick(g) ==
  /\ g \in DOMAIN wk.go
  /\ wk.go[g] # "exited"
  /\ ~wk.tick[g]
  /\ wk' = [wk EXCEPT !.tick[g] = TRUE]
  /\ UNCHANGED Store

\* The goroutine of worker g: select takes case <-ticker.C.
WorkerCycleStart(g) ==
  /\ g \in DOMAIN wk.go
  /\ wk.go[g] = "select"
  /\ wk.tick[g]
  /\ wk' = [wk EXCEPT !.tick[g] = FALSE, !.go[g] = "cleanup"]
  /\ UNCHANGED Store

\* The goroutine of worker g: performCleanup returns, back to the select.
WorkerCycleEnd(g) ==
  /\ g \in DOMAIN wk.go
  /\ wk.go[g] = "cleanup"
  /\ Writes(performCleanup(World))
  /\ wk' = [wk EXCEPT !.go[g] = "select"]
  /\ UNCHANGED << now, conc, qry, cat, disk >>

\* The goroutine of worker g: select takes case <-w.stopChan; the deferred
\* ticker.Stop() and w.wg.Done() run.
WorkerExit(g) ==
  /\ g \in DOMAIN wk.go
  /\ wk.go[g] = "select"
  /\ wk.stopChan[g] = "closed"
  /\ wk' = [wk EXCEPT !.go[g] = "exited", !.wg[g] = @ - 1, !.tick[g] = FALSE]
  /\ UNCHANGED Store

NextWorker ==
  \/ CallStartCleanupWorker
  \/ CallStopCleanupWorker
  \/ ReturnStopCleanupWorker
  \/ CallGetRecord
  \/ CallDeleteRecord
  \/ \E g \in Workers : Tick(g)
  \/ \E g \in Workers : WorkerCycleStart(g)
  \/ \E g \in Workers : WorkerCycleEnd(g)
  \/ \E g \in Workers : WorkerExit(g)

\* The steps of WorkerCycleEnd, as the worker state shows them: performCleanup
\* returns whatever the files hold.
CycleEnds ==
  \E g \in Workers :
    /\ g \in DOMAIN wk.go
    /\ wk.go[g] = "cleanup"
    /\ wk' = [wk EXCEPT !.go[g] = "select"]

\* Each cleanup cycle terminates; a select with a ready case takes one, and
\* any ready case has the same chance each time; the caller runs on once
\* wg.Wait() lets it.
FairWorker ==
  /\ WF_wk(CycleEnds)
  /\ SF_vars(\E g \in Workers : WorkerExit(g))
  /\ WF_vars(ReturnStopCleanupWorker)

SpecWorker == InitWorker /\ [][NextWorker]_vars /\ FairWorker

\* ------------------------------------------- one cleanup worker, restarted
\* A caller that holds a CleanupWorker and calls its Start and Stop itself,
\* again and again on the same object.

\* NewCleanupWorker: the object, not started, no goroutine yet.
NewCleanupWorker ==
  [ worker |-> 1, isRunning |-> << FALSE >>, stopChan |-> << "open" >>,
    wg |-> << 0 >>, tick |-> << FALSE >>, go |-> << "exited" >>, caller |-> "idle" ]

\* CleanupWorker.Start: the stop channel is the one NewCleanupWorker made; the
\* goroutine spawned has a new ticker.
Start(k) ==
  IF k.isRunning[k.worker]
  THEN [k |-> k, err |-> "cleanup worker is already running"]
  ELSE [k |-> [k EXCEPT !.isRunning[k.worker] = TRUE,
                        !.wg[k.worker] = @ + 1,
                        !.tick[k.worker] = FALSE,
                        !.go[k.worker] = "select"],
        err |-> ""]

\* CleanupWorker.Stop up to wg.Wait(): close of a closed channel panics, and
\* nothing recovers.
Stop(k) ==
  IF ~k.isRunning[k.worker]
  THEN [k |-> k, err |-> "cleanup worker is not running"]
  ELSE IF k.stopChan[k.worker] = "closed"
  THEN [k |-> [k EXCEPT !.caller = "panic"], err |-> "panic"]
  ELSE [k |-> [k EXCEPT !.stopChan[k.worker] = "closed", !.caller = "waiting"],
        err |-> ""]

\* CleanupWorker.Stop after wg.Wait().
StopDone(k) ==
  [k EXCEPT !.isRunning[k.worker] = FALSE, !.caller = "idle"]

InitRestart ==
  /\ tables = CompactableRoot.tables
  /\ files = CompactableRoot.files
  /\ side = CompactableRoot.side
  /\ inserts = {GoodData}
  /\ heap = <<>>
  /\ htab = <<>>
  /\ hsrc = <<>>
  /\ status = EmptyMap
  /\ locked = EmptyMap
  /\ staged = EmptyMap
  /\ reg = {}
  /\ txCounter = 0
  /\ recCounter = 0
  /\ now = FirstReading
  /\ conc = NoThreads
  /\ wk = NewCleanupWorker
  /\ qry = NoQuery
  /\ cat = NoCatalog
  /\ disk = NoDisk

\* The process runs: no panic has ended it.
Alive == wk.caller # "panic"

CallStart ==
  /\ wk.caller = "idle"
  /\ wk' = Start(wk).k
  /\ UNCHANGED Store

CallStop ==
  /\ wk.caller = "idle"
  /\ wk' = Stop(wk).k
  /\ UNCHANGED Store

ReturnStop ==
  /\ wk.caller = "waiting"
  /\ WaitDone(wk)
  /\ wk' = StopDone(wk)
  /\ UNCHANGED Store

RestartTick == Alive /\ Tick(1)

RestartCycleStart == Alive /\ WorkerCycleStart(1)

RestartCycleEnd == Alive /\ WorkerCycleEnd(1)

RestartExit == Alive /\ WorkerExit(1)

NextRestart ==
  \/ CallStart
  \/ CallStop
  \/ ReturnStop
  \/ CallGetRecord
  \/ CallDeleteRecord
  \/ RestartTick
  \/ RestartCycleStart
  \/ RestartCycleEnd
  \/ RestartExit

SpecRestart == InitRestart /\ [][NextRestart]_vars

\* ------------------------------------------------------------------ query
\* TableManager.Select: no limit, no sorting, no conditions.
Select(t) ==
  [table |-> t, limitCount |-> -1, sortField |-> "", sortAscending |-> TRUE,
   conditions |-> <<>>]

\* Query.Sort
Sort(q, field, ascending) ==
  [q EXCEPT !.sortField = field, !.sortAscending = ascending]

\* Query.Limit
Limit(q, count) == [q EXCEPT !.limitCount = count]

\* Query.Where
Where(q, field, operator, value) ==
  [q EXCEPT !.conditions =
              Append(@, [Field |-> field, Operator |-> operator, Value |-> value])]

\* equals: the type switch has a case for string and for int (float64 and
\* bool values are not modelled); a value of any other type, an int64
\* among them, equals nothing.
equals(a, b) ==
  CASE a.k = "string" -> b.k = "string" /\ a.s = b.s
    [] a.k = "int" -> b.k = "int" /\ a.i = b.i
    [] OTHER -> FALSE

\* greaterThan: the same type switch (the strings of a query are not compared
\* for order here: the conditions drawn are on the int field).
greaterThan(a, b) ==
  CASE a.k = "int" -> b.k = "int" /\ a.i > b.i
    [] OTHER -> FALSE

greaterThanOrEqual(a, b) == greaterThan(a, b) \/ equals(a, b)

\* lessThan
lessThan(a, b) ==
  CASE a.k = "int" -> b.k = "int" /\ a.i < b.i
    [] OTHER -> FALSE

lessThanOrEqual(a, b) == lessThan(a, b) \/ equals(a, b)

\* matchesConditions: every condition holds of the record.
matchesConditions(record, conditions) ==
  \A c \in DOMAIN conditions :
    LET condition == conditions[c]
    IN  /\ condition.Field \in DOMAIN record.data
        /\ LET fieldValue == record.data[condition.Field]
           IN  CASE condition.Operator = "=" -> equals(fieldValue, condition.Value)
                 [] condition.Operator = "!=" -> ~equals(fieldValue, condition.Value)
                 [] condition.Operator = ">" -> greaterThan(fieldValue, condition.Value)
                 [] condition.Operator = ">=" -> greaterThanOrEqual(fieldValue, condition.Value)
                 [] condition.Operator = "<" -> lessThan(fieldValue, condition.Value)
                 [] condition.Operator = "<=" -> lessThanOrEqual(fieldValue, condition.Value)
                 [] OTHER -> FALSE

\* fmt.Sprintf("%v", i) of an integer that is not negative: its decimal
\* digits.
RECURSIVE Sprintf(_)
Sprintf(i) == IF i < 10 THEN << i >> ELSE Append(Sprintf(i \div 10), i % 10)

\* a < b on strings of digits: byte by byte, a proper prefix comes first.
RECURSIVE StringLess(_, _)
StringLess(a, b) ==
  IF b = <<>> THEN FALSE
  ELSE IF a = <<>> THEN TRUE
  ELSE IF Head(a) # Head(b) THEN Head(a) < Head(b)
  ELSE StringLess(Tail(a), Tail(b))

\* The less function of sortRecords on two records: by the type of the first
\* value; an int64 takes the default branch, the comparison of what
\* Sprintf prints.
less(recI, recJ, field, ascending) ==
  LET okI == field \in DOMAIN recI.data
      okJ == field \in DOMAIN recJ.data
  IN  IF ~okI THEN FALSE
      ELSE IF ~okJ THEN TRUE
      ELSE LET valI == recI.data[field]
               valJ == recJ.data[field]
               result ==
                 CASE valI.k = "int" -> valI.i < (IF valJ.k = "int" THEN valJ.i ELSE 0)
                   [] OTHER -> StringLess(Sprintf(valI.i), Sprintf(valJ.i))
           IN  IF ~ascending THEN ~result ELSE result

\* sortRecords: sort.Slice is not stable, and promises an order only as far
\* as less is one: every arrangement in which no record stands after one it
\* is strictly less than.
sortRecords(records, field, ascending) ==
  LET n == Len(records)
      before(a, b) == less(a, b, field, ascending) /\ ~less(b, a, field, ascending)
  IN  { [i \in 1..n |-> records[p[i]]] :
          p \in { p \in Permutations(1..n) :
                    \A i, j \in 1..n :
                      i < j => ~before(records[p[j]], records[p[i]]) } }

\* Query.GetAll: the results the call may return.
GetAll(w, q) ==
  LET records == GetAllRecords(w, q.table)
      currentRecords == SelectSeq(records, IsCurrent)
      matches(r) == matchesConditions(r, q.conditions)
      filteredRecords == IF Len(q.conditions) > 0
                           THEN SelectSeq(currentRecords, matches)
                           ELSE currentRecords
      sorted == IF q.sortField # ""
                  THEN sortRecords(filteredRecords, q.sortField, q.sortAscending)
                  ELSE {filteredRecords}
  IN  { IF q.limitCount > 0 /\ Len(res) > q.limitCount
          THEN SubSeq(res, 1, q.limitCount)
          ELSE res : res \in sorted }

\* How many records the callers insert before the queries.
MaxInserts == 3

\* What the callers insert into the int field, and ask about.
QueryInts == {1, 2, 10}

Operators == {"=", "!=", ">", ">=", "<", "<="}

\* The value of a condition: the int of a Go literal, or an int64.
QueryValues == { IntV(2), Int64V(2) }

Limits == {0, 2}

\* Select(t).Where(val, op, v).Sort(val, asc).Limit(k)
Queries ==
  { Limit(Sort(Where(Select(TheTable), "val", op, v), "val", asc), k) :
      op \in Operators, v \in QueryValues, asc \in BOOLEAN, k \in Limits }

\* A condition on the int field whose value is a string.
MixedQueries ==
  { Limit(Sort(Where(Select(TheTable), "val", op, StrV(<< "x" >>)), "val", asc), k) :
      op \in Operators, asc \in BOOLEAN, k \in Limits }

\* Select(t).Sort(val, asc).Limit(k)
SortQueries ==
  { Limit(Sort(Select(TheTable), "val", asc), k) : asc \in BOOLEAN, k \in Limits }

InitQuery ==
  /\ \E root \in { EmptyRoot({TheTable}), CompactableRoot } :
       /\ tables = root.tables
       /\ files = root.files
       /\ side = root.side
  /\ inserts = { [val |-> IntV(n)] : n \in QueryInts } \cup { [val |-> NilV] }
  /\ heap = <<>>
  /\ htab = <<>>
  /\ hsrc = <<>>
  /\ status = EmptyMap
  /\ locked = EmptyMap
  /\ staged = EmptyMap
  /\ reg = {}
  /\ txCounter = 0
  /\ recCounter = 0
  /\ now = FirstReading
  /\ conc = NoThreads
  /\ wk = NoWorker
  /\ qry = NoQuery
  /\ cat = NoCatalog
  /\ disk = NoDisk

\* TableManager.InsertRecord, committed: the inserts come before the queries.
QueryInsert ==
  \E d \in inserts :
    /\ qry = NoQuery
    /\ recCounter < MaxInserts
    /\ Writes(InsertRecord(World, TheTable, d, now).w)
    /\ UNCHANGED << now, conc, wk, qry, cat, disk >>

\* A caller builds a query and runs it: the query and what GetAll returned.
QueryGetAll ==
  /\ qry = NoQuery
  /\ \E q \in Queries \cup MixedQueries \cup SortQueries : \E res \in GetAll(World, q) :
       qry' = << [q |-> q, res |-> res] >>
  /\ UNCHANGED << tables, files, side, heap, htab, hsrc, status, locked,
                  staged, reg, txCounter, recCounter, now, inserts, conc, wk, cat, disk >>

NextQuery ==
  \/ QueryInsert
  \/ QueryGetAll

SpecQuery == InitQuery /\ [][NextQuery]_vars

\* ------------------------------------------------------- strings on file
\* The strings the callers write into the string field and ask about: shorter
\* than the field, and as long as the field.
Names == { << "a" >>, << "b" >>, << "a", "b" >>, << "a", "b", "c" >> }

\* Select(t).Where(name, op, v), with the operators that equals decides.
NameQueries ==
  { Where(Select(NamesTable), "name", op, StrV(v)) : op \in {"=", "!="}, v \in Names }

InitCodec ==
  /\ tables = {NamesTable}
  /\ files = EmptyRoot({NamesTable}).files
  /\ side = EmptyRoot({NamesTable}).side
  /\ inserts = { [name |-> StrV(v)] : v \in Names }
  /\ heap = <<>>
  /\ htab = <<>>
  /\ hsrc = <<>>
  /\ status = EmptyMap
  /\ locked = EmptyMap
  /\ staged = EmptyMap
  /\ reg = {}
  /\ txCounter = 0
  /\ recCounter = 0
  /\ now = FirstReading
  /\ conc = NoThreads
  /\ wk = NoWorker
  /\ qry = NoQuery
  /\ cat = NoCatalog
  /\ disk = NoDisk

\* TableManager.InsertRecord, committed: the record goes through Serialize
\* into the table file.
CodecInsert ==
  \E d \in inserts :
    /\ qry = NoQuery
    /\ recCounter < MaxInserts
    /\ Writes(InsertRecord(World, NamesTable, d, now).w)
    /\ UNCHANGED << now, conc, wk, qry, cat, disk >>

\* A caller asks for the records of a name: the records come through
\* DeserializeRecord out of the table file.
CodecGetAll ==
  /\ qry = NoQuery
  /\ \E q \in NameQueries : \E res \in GetAll(World, q) :
       qry' = << [q |-> q, res |-> res] >>
  /\ UNCHANGED << tables, files, side, heap, htab, hsrc, status, locked,
                  staged, reg, txCounter, recCounter, now, inserts, conc, wk, cat, disk >>

NextCodec ==
  \/ CodecInsert
  \/ CodecGetAll

SpecCodec == InitCodec /\ [][NextCodec]_vars

\* ---------------------------------------------------------- table catalog
\* timePKField: the implicit id field.
timePKField == [name |-> "id", type |-> "timeID", length |-> 8]

\* validateFieldLengths: a ref field has length 128, a timeID field length 8.
validateFieldLengths(fields) ==
  \A i \in DOMAIN fields :
    /\ fields[i].type = "ref" => fields[i].length = 128
    /\ fields[i].type = "timeID" => fields[i].length = 8

\* strings.HasPrefix(name, "."), a name being the sequence of its characters.
HasDotPrefix(name) == Len(name) > 0 /\ name[1] = "."

\* The files CreateTable makes once every check has passed: the data file,
\* a sidecar for each ref field, the config file with the fields.  os.Create
\* truncates a file that exists.
CreateFiles(c, name, fields) ==
  [c EXCEPT !.data = Put(@, name, <<>>),
            !.side = [k \in DOMAIN @ \cup { <<name, fields[i].name>> :
                                             i \in { j \in DOMAIN fields : fields[j].type = "ref" } } |->
                        IF k[1] = name /\ \E i \in DOMAIN fields :
                                            fields[i].type = "ref" /\ fields[i].name = k[2]
                          THEN <<>> ELSE c.side[k]],
            !.conf = Put(@, name, fields)]

\* Schema.CreateTable without the check that the table file exists.
CreateTableOverExisting(c, name, fields0) ==
  LET fields == << timePKField >> \o fields0
  IN  IF ~c.schema THEN [c |-> c, code |-> 406]
      ELSE IF Len(name) = 0 THEN [c |-> c, code |-> 406]
      ELSE IF HasDotPrefix(name) THEN [c |-> c, code |-> 406]
      ELSE IF name = << "i", "n", "d", "e", "x" >> THEN [c |-> c, code |-> 406]
      ELSE IF ~validateFieldLengths(fields) THEN [c |-> c, code |-> 406]
      ELSE [c |-> CreateFiles(c, name, fields), code |-> 200]

\* Schema.CreateTable: the response code and the files afterwards.
CreateTable(c, name, fields0) ==
  LET fields == << timePKField >> \o fields0
  IN  IF ~c.schema THEN [c |-> c, code |-> 406]
      ELSE IF name \in DOMAIN c.data THEN [c |-> c, code |-> 406]
      ELSE IF Len(name) = 0 THEN [c |-> c, code |-> 406]
      ELSE IF HasDotPrefix(name) THEN [c |-> c, code |-> 406]
      ELSE IF name = << "i", "n", "d", "e", "x" >> THEN [c |-> c, code |-> 406]
      ELSE IF ~validateFieldLengths(fields) THEN [c |-> c, code |-> 406]
      ELSE [c |-> CreateFiles(c, name, fields), code |-> 200]

\* TableManager.CreateTable: the schema is looked up, the table created and
\* read back with its qualified name.
TmCreateTable(c, name, fields) ==
  IF ~c.schema THEN [c |-> c, err |-> "schema does not exist"]
  ELSE LET resp == CreateTable(c, name, fields)
       IN  IF resp.code >= 400 THEN [c |-> resp.c, err |-> "create table"]
           ELSE IF name \notin DOMAIN resp.c.conf
             THEN [c |-> resp.c, err |-> "table does not exist"]
           ELSE [c |-> resp.c, err |-> ""]

\* The names callers give: none, one with a leading dot, "index", and names
\* that pass, "index2" among them.
TableNames ==
  { <<>>, << ".", "t" >>, << "i", "n", "d", "e", "x" >>,
    << "t" >>, << "u" >>, << "i", "n", "d", "e", "x", "2" >> }

\* The field lists callers give: an int field alone, with a ref field of the
\* right or of a wrong length, or with a timeID field of a wrong length.
FieldLists ==
  { << [name |-> "val", type |-> "int", length |-> 8] >>,
    << [name |-> "val", type |-> "int", length |-> 8],
       [name |-> "body", type |-> "ref", length |-> 128] >>,
    << [name |-> "val", type |-> "int", length |-> 8],
       [name |-> "body", type |-> "ref", length |-> 64] >>,
    << [name |-> "at", type |-> "timeID", length |-> 4] >> }

\* How many records a table of the catalog comes to hold.
MaxRows == 2

InitCatalog ==
  /\ tables = {}
  /\ files = EmptyRoot({}).files
  /\ side = EmptyRoot({}).side
  /\ inserts = {}
  /\ heap = <<>>
  /\ htab = <<>>
  /\ hsrc = <<>>
  /\ status = EmptyMap
  /\ locked = EmptyMap
  /\ staged = EmptyMap
  /\ reg = {}
  /\ txCounter = 0
  /\ recCounter = 0
  /\ now = FirstReading
  /\ conc = NoThreads
  /\ wk = NoWorker
  /\ qry = NoQuery
  /\ \E e \in BOOLEAN : cat = [NoCatalog EXCEPT !.schema = e]
  /\ disk = NoDisk

\* A caller creates a table.
CatalogCreateTable ==
  /\ \E name \in TableNames, fields \in FieldLists :
       cat' = TmCreateTable(cat, name, fields).c
  /\ UNCHANGED << tables, files, side, heap, htab, hsrc, status, locked, staged,
                  reg, txCounter, recCounter, now, inserts, conc, wk, qry, disk >>

\* A commit into a table of the catalog: a record more in its data file, a
\* payload more in each of its sidecars.
CatalogWrite ==
  /\ \E name \in DOMAIN cat.data :
       /\ Len(cat.data[name]) < MaxRows
       /\ cat' = [cat EXCEPT !.data[name] = Append(@, "record"),
                             !.side = [k \in DOMAIN @ |->
                                         IF k[1] = name THEN Append(@[k], "payload")
                                         ELSE @[k]]]
  /\ UNCHANGED << tables, files, side, heap, htab, hsrc, status, locked, staged,
                  reg, txCounter, recCounter, now, inserts, conc, wk, qry, disk >>

NextCatalog ==
  \/ CatalogCreateTable
  \/ CatalogWrite

SpecCatalog == InitCatalog /\ [][NextCatalog]_vars

\* ------------------------------------------------- one table file on disk
\* Table.WriteRecords step by step, as the goroutines of the program run it
\* on one table: the commits and rollbacks of different transactions hold no
\* common lock, and cleanupTable writes the table through the same temporary
\* path.  A file is an inode; a path names an inode; an open file keeps its
\* inode and its own offset.

\* How many goroutines write the table, and how many calls they make in all.
MaxWriters == 2

MaxCalls == 3

Writers == 1..MaxWriters

\* The bytes a write past the end of a file leaves in between: a record's
\* length of zero bytes.
Zeros ==
  [ id |-> 0, cur |-> FALSE, del |-> FALSE, lck |-> FALSE, tx |-> 0,
    cells |-> [n \in FieldNames(NonIdFields(TableFields)) |->
                 [null |-> FALSE, pay |-> ZeroCell(FieldByName(TableFields, n))]] ]

\* The record list the table file starts with, and the lists the callers
\* hand to WriteRecords; the last record of BadList does not serialize.
OldList == << NewRecord(1, [val |-> IntV(7)]) >>

ListA == << NewRecord(2, [val |-> IntV(1)]), NewRecord(3, [val |-> IntV(2)]) >>

ListB == << NewRecord(4, [val |-> IntV(3)]), NewRecord(5, [val |-> IntV(4)]) >>

BadList == << NewRecord(6, PlainData), NewRecord(7, BadData) >>

WriteLists == { ListA, ListB, BadList }

\* The bytes of a whole record list.
FileOf(records) ==
  [i \in DOMAIN records |-> Serialize(records[i], TableFields).bytes]

\* os.Create(tempPath): the file at the path cut to length zero, or a new
\* empty file under that path; the open file starts at offset 0.
osCreate(d) ==
  IF d.temp # 0
    THEN [d |-> [d EXCEPT !.inode[d.temp] = <<>>], fd |-> d.temp]
    ELSE [d |-> [d EXCEPT !.inode = Append(@, <<>>), !.temp = Len(d.inode) + 1],
          fd |-> Len(d.inode) + 1]

\* tempFile.Write(data) at the offset of the open file, counted in records.
fileWrite(content, off, bytes) ==
  [i \in 1..(IF Len(content) > off + 1 THEN Len(content) ELSE off + 1) |->
     IF i = off + 1 THEN bytes
     ELSE IF i <= Len(content) THEN content[i]
     ELSE Zeros]

\* os.Rename(tempPath, tablePath): the table path names the file the
\* temporary path named, in one step; an error when that path names none.
osRename(d) ==
  IF d.temp = 0
    THEN [d |-> d, ok |-> FALSE]
    ELSE [d |-> [d EXCEPT !.table = d.temp, !.temp = 0], ok |-> TRUE]

\* A goroutine outside WriteRecords, with what its last call returned.
Returned(err) == [pc |-> "out", fd |-> 0, off |-> 0, recs |-> <<>>, ret |-> err]

\* What a reader of the table file gets.
ReadTable == disk.inode[disk.table]

InitDisk ==
  /\ tables = {}
  /\ files = EmptyRoot({}).files
  /\ side = EmptyRoot({}).side
  /\ inserts = {}
  /\ heap = <<>>
  /\ htab = <<>>
  /\ hsrc = <<>>
  /\ status = EmptyMap
  /\ locked = EmptyMap
  /\ staged = EmptyMap
  /\ reg = {}
  /\ txCounter = 0
  /\ recCounter = 0
  /\ now = FirstReading
  /\ conc = NoThreads
  /\ wk = NoWorker
  /\ qry = NoQuery
  /\ cat = NoCatalog
  /\ disk = [ inode |-> << FileOf(OldList) >>, table |-> 1, temp |-> 0, calls |-> 0,
              w |-> [g \in Writers |-> Returned("none")] ]

DiskFrame ==
  UNCHANGED << tables, files, side, heap, htab, hsrc, status, locked, staged,
               reg, txCounter, recCounter, now, inserts, conc, wk, qry, cat >>

\* WriteRecords up to the loop: the temporary file is created.
WriteRecordsCreate(g) ==
  /\ disk.w[g].pc = "out"
  /\ disk.calls < MaxCalls
  /\ \E records \in WriteLists :
       LET c == osCreate(disk)
       IN  disk' = [c.d EXCEPT !.calls = @ + 1,
                               !.w[g] = [pc |-> "loop", fd |-> c.fd, off |-> 0,
                                         recs |-> records, ret |-> "none"]]
  /\ DiskFrame

\* One turn of the loop: the record is serialized and written, or the call
\* returns the error of Serialize or of Write.
WriteRecordsLoop(g) ==
  /\ disk.w[g].pc = "loop"
  /\ disk.w[g].off < Len(disk.w[g].recs)
  /\ LET me == disk.w[g]
         data == Serialize(me.recs[me.off + 1], TableFields)
     IN  IF ~data.ok
           THEN disk' = [disk EXCEPT !.w[g] = Returned("serialize")]
           ELSE \E written \in BOOLEAN :
                  IF written
                    THEN disk' = [disk EXCEPT
                                    !.inode[me.fd] = fileWrite(@, me.off, data.bytes),
                                    !.w[g].off = @ + 1]
                    ELSE disk' = [disk EXCEPT !.w[g] = Returned("write")]
  /\ DiskFrame

\* After the loop: the temporary file is closed and renamed over the table.
WriteRecordsRename(g) ==
  /\ disk.w[g].pc = "loop"
  /\ disk.w[g].off = Len(disk.w[g].recs)
  /\ LET r == osRename(disk)
     IN  disk' = [r.d EXCEPT !.w[g] = Returned(IF r.ok THEN "" ELSE "rename")]
  /\ DiskFrame

NextDisk ==
  \/ \E g \in Writers : WriteRecordsCreate(g)
  \/ \E g \in Writers : WriteRecordsLoop(g)
  \/ \E g \in Writers : WriteRecordsRename(g)

SpecDisk == InitDisk /\ [][NextDisk]_vars

\* ------------------------------------------------- a commit that is retried
\* A transaction over two tables whose Commit meets an error of the file
\* system (os.Create, Write or os.Rename in WriteRecords) at one of its
\* tables, and is called again.

\* The loop of Commit when WriteRecords fails on the file system at the k-th
\* table it comes to: the tables before it are written, the staged records
\* of the k-th are marked, its file is as it was, the status is not set.
RECURSIVE CommitTablesFailing(_, _, _, _)
CommitTablesFailing(w, tx, order, k) ==
  IF order = <<>> THEN [w |-> [w EXCEPT !.status[tx] = "committed"], err |-> ""]
  ELSE LET hs == w.staged[tx][Head(order)]
           got == GetTable(w, <<Head(order)>>)
       IN  IF ~got.ok THEN [w |-> w, err |-> "get table"]
           ELSE LET cw == CommitWrite(w, tx, got.table, hs, GetAllRecords(w, got.table))
                IN  IF k = 1 THEN [w |-> [cw.w EXCEPT !.files = w.files], err |-> "write"]
                    ELSE IF ~cw.ok THEN [w |-> cw.w, err |-> "write"]
                    ELSE CommitTablesFailing(cw.w, tx, Tail(order), k - 1)

\* Transaction.Commit with that failure.
CommitFailing(w, tx, order, k) ==
  IF w.status[tx] # "active"
    THEN [w |-> w, err |-> "not active"]
    ELSE CommitTablesFailing(w, tx, order, k)

RetryTables == { Tbl(DefaultSchema, "t"), NamesTable }

InitRetry ==
  /\ tables = RetryTables
  /\ files = EmptyRoot(RetryTables).files
  /\ side = EmptyRoot(RetryTables).side
  /\ inserts = {PlainData}
  /\ heap = <<>>
  /\ htab = <<>>
  /\ hsrc = <<>>
  /\ status = EmptyMap
  /\ locked = EmptyMap
  /\ staged = EmptyMap
  /\ reg = {}
  /\ txCounter = 0
  /\ recCounter = 0
  /\ now = FirstReading
  /\ conc = NoThreads
  /\ wk = NoWorker
  /\ qry = NoQuery
  /\ cat = NoCatalog
  /\ disk = NoDisk

\* How long a table file may be for another write to fail.
MaxFileLen == 3

\* A Commit that returns the error of a failed write.
DoCommitFailing ==
  \E tx \in Txs : \E o \in Orders(DOMAIN staged[tx]) : \E k \in DOMAIN o :
    /\ \A t \in tables : Len(files[t]) < MaxFileLen
    /\ LET r == CommitFailing(World, tx, o, k)
       IN  /\ Becomes(r.w)
    /\ UNCHANGED now

NextRetry ==
  \/ DoBeginTransaction
  \/ DoStageInsert
  \/ DoCommit
  \/ DoCommitFailing

SpecRetry == InitRetry /\ [][NextRetry]_vars

\* ----------------------------------------------------------------- claims
Terminal == {"committed", "rolled back"}

\* The staged set of tx is the one record h, staged for the table it came from.
StagedJust(tx, h) ==
  /\ DOMAIN staged[tx] = {htab[h].name}
  /\ staged[tx][htab[h].name] = <<h>>

\* h is a clone staged from a record that the table file held as its live
\* version when it was staged, and still holds so.
ClonedFromLive(h, kind) ==
  /\ hsrc[h].kind = kind
  /\ hsrc[h].infile
  /\ \E i \in DOMAIN files[htab[h]] :
       files[htab[h]][i].id = hsrc[h].src /\ IsCurrent(files[htab[h]][i])

\* The file f holds the old and the new version, and of the two exactly the
\* new one is current.
OneCurrentVersion(f, oldId, newId) ==
  /\ \E i \in DOMAIN f : f[i].id = oldId
  /\ \E i \in DOMAIN f : f[i].id = newId
  /\ \A i \in DOMAIN f : f[i].id \in {oldId, newId} => (f[i].cur <=> f[i].id = newId)

\* C1: when the update of a committed record is committed, the table file
\* holds both versions, exactly one of them is current, and it is the new one
\* with the updated values, so GetCurrentRecords returns only the new one.
C1_UpdateSupersedes ==
  \A tx \in Txs : \A o \in Orders(DOMAIN staged[tx]) : \A h \in Handles :
    LET c == Commit(World, tx, o)
        f == c.w.files[htab[h]]
        cur == GetCurrentRecords(c.w, htab[h])
    IN  ( /\ status[tx] = "active"
          /\ StagedJust(tx, h)
          /\ ClonedFromLive(h, "update")
          /\ htab[h].schema = DefaultSchema
          /\ c.err = "" )
        => /\ OneCurrentVersion(f, hsrc[h].src, heap[h].id)
           /\ \A i \in DOMAIN f : f[i].id = heap[h].id =>
                \A n \in DOMAIN f[i].cells :
                  (n \in DOMAIN heap[h].data /\ heap[h].data[n].k \in {"int", "int64"})
                    => f[i].cells[n].pay = heap[h].data[n].i
           /\ \A i \in DOMAIN cur : cur[i].id # hsrc[h].src

\* The file f still holds the original and holds a tombstone, and neither of
\* them is current and not deleted.
DeletedAndHidden(f, oldId, newId) ==
  /\ \E i \in DOMAIN f : f[i].id = oldId
  /\ \E i \in DOMAIN f : f[i].id = newId /\ f[i].del
  /\ \A i \in DOMAIN f : f[i].id \in {oldId, newId} => ~IsCurrent(f[i])

\* C2: when the delete of a committed record is committed, GetCurrentRecords
\* returns neither the original nor the tombstone, and GetAllRecords still
\* holds the original and a tombstone with is_deleted set.
C2_DeleteHides ==
  \A tx \in Txs : \A o \in Orders(DOMAIN staged[tx]) : \A h \in Handles :
    LET c == Commit(World, tx, o)
    IN  ( /\ status[tx] = "active"
          /\ StagedJust(tx, h)
          /\ ClonedFromLive(h, "delete")
          /\ htab[h].schema = DefaultSchema
          /\ c.err = "" )
        => DeletedAndHidden(c.w.files[htab[h]], hsrc[h].src, heap[h].id)

\* A table just created: nothing written to its file or its sidecar.
Fresh(t) == files[t] = <<>> /\ side[t]["body"] = <<>>

\* C3: InsertRecord of valid data into a freshly created table, in a schema
\* of any name, succeeds, and GetCurrentRecords then returns exactly one
\* record, with the inserted values and a positive id.
C3_InsertThenRead ==
  \A t \in tables : \A t0 \in Readings :
    LET r == InsertRecord(World, t, GoodData, t0)
        cur == GetCurrentRecords(r.w, t)
    IN  Fresh(t)
        => /\ r.err = ""
           /\ Len(cur) = 1
           /\ cur[1].id > 0
           /\ "val" \in DOMAIN cur[1].data /\ cur[1].data["val"].i = GoodData.val.i
           /\ ReadRefData(cur[1], r.w.side[t]["body"], "body").value = GoodData.body.s

\* Transaction tx is active and holds the lock of the record `id` of table t:
\* the key is in its lock set and a handle of the record carries its lock.
HoldsLock(tx, t, id) ==
  /\ status[tx] = "active"
  /\ <<t.name, id>> \in locked[tx]
  /\ \E h \in Handles : /\ htab[h] = t
                        /\ heap[h].id = id
                        /\ heap[h].lck
                        /\ heap[h].tx = tx

\* C4: at most one active transaction holds the lock of a record of a table,
\* whether the transactions share a handle or read the record separately.
C4_OneLockHolder ==
  \A t \in tables : \A i \in DOMAIN files[t] :
    Cardinality({ tx \in Txs : HoldsLock(tx, t, files[t][i].id) }) <= 1

\* The handle h carries the lock of transaction tx.
LockedBy(h, tx) == heap[h].lck /\ heap[h].tx = tx

\* C5: while an active transaction tx1 holds the lock of a record, StageUpdate
\* and StageDelete of that record by another transaction tx2 fail with an
\* error that names tx1, and leave the record's lock, tx2's lock set and tx2's
\* staged set as they were (here: they leave everything as it was).
C5_LockConflict ==
  \A h \in Handles : \A tx1 \in Txs : \A tx2 \in Txs :
    \A u \in UpdateData : \A t0 \in Readings :
      LET a == StageUpdate(World, tx2, htab[h], h, u, t0)
          b == StageDelete(World, tx2, htab[h], h, t0)
      IN  ( /\ tx1 # tx2
            /\ status[tx1] = "active"
            /\ status[tx2] = "active"
            /\ LockedBy(h, tx1) )
          => /\ a.err = "locked" /\ a.holder = tx1 /\ a.w = World
             /\ b.err = "locked" /\ b.holder = tx1 /\ b.w = World

\* Two active transactions, and a record read from the table file whose
\* handle the first has locked with LockRecord, StageUpdate or StageDelete.
C5_Witness ==
  \E h \in Handles : \E tx1 \in Txs : \E tx2 \in Txs :
    /\ tx1 # tx2
    /\ status[tx1] = "active"
    /\ status[tx2] = "active"
    /\ hsrc[h].kind = "read"
    /\ LockedBy(h, tx1)
    /\ Key(htab[h], heap[h]) \in locked[tx1]
    /\ Key(htab[h], heap[h]) \notin locked[tx2]

\* C6: once a transaction has committed or rolled back, the records it had
\* locked are lockable again: another active transaction that stages an
\* update or a delete through the same handle gets no lock conflict.
C6_LockReleasedAtEnd ==
  \A h \in Handles : \A tx1 \in Txs : \A tx2 \in Txs :
    \A u \in UpdateData : \A t0 \in Readings :
      ( /\ status[tx1] \in Terminal
        /\ Key(htab[h], heap[h]) \in locked[tx1]
        /\ hsrc[h].kind = "read"
        /\ status[tx2] = "active"
        /\ \A tx3 \in Txs : (status[tx3] = "active" /\ tx3 # tx2) => ~LockedBy(h, tx3) )
      => /\ StageUpdate(World, tx2, htab[h], h, u, t0).err # "locked"
         /\ StageDelete(World, tx2, htab[h], h, t0).err # "locked"

\* The call r returned an error and changed nothing.
Refused(r) == r.err # "" /\ r.w = World

\* Every operation of transaction tx, with any arguments, is refused.
Inert(tx) ==
  /\ \A h \in Handles :
       /\ Refused(LockRecord(World, tx, htab[h], h))
       /\ \A t0 \in Readings :
            /\ Refused(StageDelete(World, tx, htab[h], h, t0))
            /\ \A u \in UpdateData : Refused(StageUpdate(World, tx, htab[h], h, u, t0))
  /\ \A t \in tables : \A d \in {GoodData, BadData} : \A t0 \in Readings :
       Refused(StageInsert(World, tx, t, d, t0))
  /\ \A o \in Orders(DOMAIN staged[tx]) :
       /\ Refused(Commit(World, tx, o))
       /\ Refused(Rollback(World, tx, o))

\* C7: a transaction that is committed or rolled back keeps that status in
\* every later step, and each of LockRecord, StageInsert, StageUpdate,
\* StageDelete, Commit and Rollback on it returns an error and changes no
\* transaction, no record and no file.
C7_TerminalIsFinal ==
  [][\A tx \in Txs :
       /\ status[tx] \in Terminal => status'[tx] = status[tx]
       /\ status'[tx] \in Terminal => Inert(tx)']_vars

\* A committed transaction with a lock and a staged record, a rolled-back
\* one, and a handle and a table to call the operations with.
C7_Witness ==
  /\ \E tx \in Txs : /\ status[tx] = "committed"
                     /\ locked[tx] # {}
                     /\ DOMAIN staged[tx] # {}
  /\ \E tx \in Txs : status[tx] = "rolled back"
  /\ Handles # {}

\* C8: a Commit that returns an error leaves the transaction active with its
\* staged records still staged, and through CommitTransaction the transaction
\* stays in the registry.
C8_FailedCommitStaysActive ==
  \A tx \in Txs : \A o \in Orders(DOMAIN staged[tx]) :
    LET c == Commit(World, tx, o)
        m == CommitTransaction(World, tx, o)
    IN  status[tx] = "active"
        => /\ c.err # "" => /\ c.w.status[tx] = "active"
                            /\ c.w.staged[tx] = staged[tx]
           /\ m.err # "" => /\ m.w.status[tx] = "active"
                            /\ m.w.staged[tx] = staged[tx]
                            /\ tx \in m.w.reg

\* An active transaction whose commit has failed at the write (its staged
\* record is already marked current and unlocked) and fails again.
C8_Witness ==
  \E tx \in Txs : \E o \in Orders(DOMAIN staged[tx]) :
    /\ status[tx] = "active"
    /\ tx \in reg
    /\ \E n \in DOMAIN staged[tx] : \E h \in Range(staged[tx][n]) :
         heap[h].cur /\ ~heap[h].lck
    /\ Commit(World, tx, o).err = "write"

\* A table file with the lock bit and the transaction id of every record
\* cleared.
StripLocks(f) == [i \in DOMAIN f |-> [f[i] EXCEPT !.lck = FALSE, !.tx = 0]]

\* C9: a successful Rollback leaves every table file with the same records in
\* the same order, with the same ids, values, null flags, ref offsets and
\* current/deleted flags; only lock bits and transaction ids may differ.
C9_RollbackKeepsFiles ==
  \A tx \in Txs : \A o \in Orders(DOMAIN staged[tx]) :
    LET r == Rollback(World, tx, o)
    IN  (status[tx] = "active" /\ r.err = "")
        => \A t \in AllTables : StripLocks(r.w.files[t]) = StripLocks(files[t])

\* C10: when a cleanup compacts a table, every retained record whose ref field
\* is not null still reads, through its persisted offsets and the rewritten
\* sidecar, the payload it referenced before the cleanup.
C10_CleanupKeepsRefs ==
  \A t \in tables :
    LET w2 == performCleanup(World)
        before == SelectSeq(GetAllRecords(World, t), IsCurrent)
        after == GetAllRecords(w2, t)
    IN  Len(before) # Len(files[t])
        => /\ Len(after) = Len(before)
           /\ \A i \in DOMAIN after :
                LET old == ReadRefData(before[i], side[t]["body"], "body")
                    new == ReadRefData(after[i], w2.side[t]["body"], "body")
                IN  ("body" \in DOMAIN before[i].ref /\ old.ok)
                    => new.ok /\ new.value = old.value

\* The sum of the lengths of a set of byte ranges.
RECURSIVE RangeBytes(_)
RangeBytes(ranges) ==
  IF ranges = {} THEN 0
  ELSE LET r == CHOOSE x \in ranges : TRUE
       IN  (r[2] - r[1]) + RangeBytes(ranges \ {r})

\* C11: when a cleanup cycle compacts a table (some of its records were
\* deleted or superseded), the sidecar of its ref field is afterwards as long
\* as the distinct ranges the retained records reference, taken together; it
\* is empty when no retained record references the field.
C11_SidecarHoldsUsedRanges ==
  \A t \in tables :
    LET records == GetAllRecords(World, t)
        retained == SelectSeq(records, IsCurrent)
        after == performCleanup(World).side[t]["body"]
    IN  Len(retained) # Len(records)
        => Len(after) = RangeBytes(UsedRanges(retained, "body"))

\* A serialized record is current: is_current and not is_deleted.
StoredCurrent(b) == b.cur /\ ~b.del

\* C12: after a cleanup cycle every table file holds exactly the records that
\* were current before it, as they were stored and in their order, and a
\* table all of whose records are current keeps its file and its sidecars
\* unchanged.
C12_CleanupKeepsCurrent ==
  \A t \in tables :
    LET w2 == performCleanup(World)
        kept == SelectSeq(files[t], StoredCurrent)
    IN  /\ w2.files[t] = kept
        /\ Len(kept) = Len(files[t]) => (w2.files[t] = files[t] /\ w2.side[t] = side[t])

\* Caller th's commit has returned success.
CommitReturned(th) ==
  /\ conc.pc[th] = "done"
  /\ status[conc.tx[th]] = "committed"

\* The table file holds a record with the id of the staged record h.
Stored(f, h) == \E i \in DOMAIN f : f[i].id = heap[h].id

\* C13: once two transactions that staged records for the same table have
\* both committed with success, however their reads and writes of the table
\* file interleaved (and with no cleanup in between), the table file holds
\* the staged records of both.
C13_NoLostCommit ==
  ( /\ \A th \in Threads : CommitReturned(th)
    /\ ~conc.compacted )
  => \A th \in Threads : \A h \in Range(staged[conc.tx[th]]["t"]) :
       Stored(files[TheTable], h)

\* A step of the cleanup worker that replaces the table file / the sidecar.
CleanupRewritesFile == conc.gc = "file" /\ conc'.gc = "ref"

CleanupRewritesSidecar == conc.gc = "refw" /\ conc'.gc = "idle"

\* C14: the cleanup worker's rewrite of a table file drops no record of a
\* transaction whose commit returned success while the record is current and
\* not deleted, and its rewrite of a sidecar loses no payload that a staged
\* record of an active transaction references.
C14_CleanupLosesNothing ==
  [][ /\ CleanupRewritesFile =>
           \A th \in Threads : CommitReturned(th) =>
             \A h \in Range(staged[conc.tx[th]]["t"]) :
               (\E i \in DOMAIN files[TheTable] :
                   /\ files[TheTable][i].id = heap[h].id
                   /\ StoredCurrent(files[TheTable][i]))
               => Stored(files'[TheTable], h)
      /\ CleanupRewritesSidecar =>
           \A th \in Threads : conc.pc[th] \in {"ready", "cwrite", "rwrite"} =>
             \A h \in Range(staged[conc.tx[th]]["t"]) :
               ReadRefData(heap[h], side[TheTable]["body"], "body")
                  = [ok |-> TRUE, value |-> Payload(th)]
               => ReadRefData(heap[h], side'[TheTable]["body"], "body")
                    = [ok |-> TRUE, value |-> Payload(th)] ]_vars

\* Caller th's WriteRefData appends its bytes and StageInsert stages the
\* record.
AppendsPayload(th) == conc.pc[th] = "append" /\ conc'.pc[th] = "ready"

\* Two byte ranges share no byte.
Disjoint(a, b) == a[2] <= b[1] \/ b[2] <= a[1]

\* C15: whenever a caller's write to the ref field appends its n bytes, the
\* offsets it records are [prev_len, prev_len + n) of the sidecar as it is at
\* that moment, they delimit the payload written, and they overlap the range
\* of no other staged write.
C15_RefOffsetsOwnPayload ==
  [][ \A th \in Threads : AppendsPayload(th) =>
        LET h == Len(heap')
            prev_len == Len(side[TheTable]["body"])
            offsets == heap'[h].ref["body"]
        IN  /\ offsets = <<prev_len, prev_len + Len(Payload(th))>>
            /\ ReadRefData(heap'[h], side'[TheTable]["body"], "body")
                 = [ok |-> TRUE, value |-> Payload(th)]
            /\ \A g \in DOMAIN heap : Disjoint(heap[g].ref["body"], offsets) ]_vars

\* The records that StageInsert, StageUpdate or StageDelete produced.
Produced == { h \in Handles : hsrc[h].kind \in {"insert", "update", "delete"} }

\* C16: the ids that StageInsert, StageUpdate and StageDelete produce are
\* pairwise different, for every non-decreasing sequence of clock readings,
\* and no table file holds two records with the same id.
C16_IdsUnique ==
  /\ \A g \in Produced : \A h \in Produced : heap[g].id = heap[h].id => g = h
  /\ \A t \in tables : \A i \in DOMAIN files[t] : \A j \in DOMAIN files[t] :
       files[t][i].id = files[t][j].id => i = j

\* The store as a table manager sees it whose registry is R.
Registry(R) == [World EXCEPT !.reg = R]

\* C17: for a manager whose registry lacks the transaction, CommitTransaction
\* and RollbackTransaction fail with the not-found error and change nothing;
\* a CommitTransaction or RollbackTransaction that succeeds removes from the
\* registry the entry of its transaction and no other.
C17_RegistryLookup ==
  \A tx \in Txs : \A o \in Orders(DOMAIN staged[tx]) : \A R \in SUBSET reg :
    LET c == CommitTransaction(Registry(R), tx, o)
        r == RollbackTransaction(Registry(R), tx, o)
    IN  /\ tx \notin R => /\ c.err = "not found" /\ c.w = Registry(R)
                          /\ r.err = "not found" /\ r.w = Registry(R)
        /\ (tx \in R /\ c.err = "") => c.w.reg = R \ {tx}
        /\ (tx \in R /\ r.err = "") => r.w.reg = R \ {tx}

\* One transaction was committed through the manager and is no longer
\* registered, another is registered with a staged record and its
\* RollbackTransaction succeeds.
C17_Witness ==
  /\ \E tx \in Txs : /\ tx \notin reg
                     /\ status[tx] = "committed"
                     /\ DOMAIN staged[tx] # {}
  /\ \E tx \in reg : \E o \in Orders(DOMAIN staged[tx]) :
       /\ DOMAIN staged[tx] # {}
       /\ RollbackTransaction(World, tx, o).err = ""


\* The workers whose goroutine exists.
Live(k) == { g \in DOMAIN k.go : k.go[g] # "exited" }

\* C18: in any sequence of StartCleanupWorker and StopCleanupWorker calls, a
\* start issued while a worker is running and a stop issued while none is
\* running return an error and leave the worker state unchanged, every other
\* call succeeds (the start makes the one worker, the stop signals it), and
\* at most one cleanup goroutine exists at any time.
C18_StartStopLifecycle ==
  /\ Cardinality(Live(wk)) <= 1
  /\ wk.caller = "idle" =>
       LET s == StartCleanupWorker(wk)
           p == StopSignal(wk)
       IN  /\ wk.worker # 0 <=> Live(wk) # {}
           /\ IF wk.worker # 0
              THEN /\ s.err # "" /\ s.k = wk
                   /\ p.err = "" /\ p.k.stopChan[wk.worker] = "closed"
                   /\ StopReturn(p.k).worker = 0
              ELSE /\ p.err # "" /\ p.k = wk
                   /\ s.err = "" /\ s.k.worker # 0
                   /\ Live(s.k) = {s.k.worker}

\* A second worker runs, after the first was stopped: a start now is a start
\* issued while a worker is running.
C18_Witness ==
  /\ wk.caller = "idle"
  /\ wk.worker = 2
  /\ wk.go[1] = "exited"
  /\ StartCleanupWorker(wk).err # ""

StopReturns == wk.caller = "waiting" /\ wk'.caller = "idle"

CycleStarts(g) == wk.go[g] = "select" /\ wk'.go[g] = "cleanup"

\* C19: Stop returns only after the worker goroutine has exited; a cleanup
\* cycle in progress when the stop signal is raised runs to completion (it
\* ends as a whole performCleanup, and Stop has not returned before); no
\* cleanup cycle of a worker starts after its Stop has returned; and, each
\* cleanup cycle terminating, a Stop that was called eventually returns.
C19_StopWaitsForWorker ==
  /\ [][ /\ StopReturns => wk.go[wk.worker] = "exited"
         /\ \A g \in DOMAIN wk.go :
              /\ CycleStarts(g) => wk.isRunning[g]
              /\ wk.go[g] = "cleanup" =>
                   /\ ~(StopReturns /\ wk.worker = g)
                   /\ \/ wk'.go[g] = "cleanup"
                      \/ /\ wk'.go[g] = "select"
                         /\ files' = performCleanup(World).files ]_vars
  /\ (wk.caller = "waiting") ~> (wk.caller = "idle")

\* The stop signal is raised while a cleanup cycle is in progress.
C19_Witness ==
  /\ wk.caller = "waiting"
  /\ wk.stopChan[wk.worker] = "closed"
  /\ wk.go[wk.worker] = "cleanup"


\* n op v under numeric comparison.
Satisfies(n, op, v) ==
  CASE op = "=" -> n = v
    [] op = "!=" -> n # v
    [] op = ">" -> n > v
    [] op = ">=" -> n >= v
    [] op = "<" -> n < v
    [] op = "<=" -> n <= v

\* The current records whose stored field satisfies the one condition of q,
\* in every numeric order of that field, truncated to the limit when it is
\* positive.
Selected(w, q) ==
  LET c == q.conditions[1]
      holds(r) == /\ c.Field \in DOMAIN r.data
                  /\ Satisfies(r.data[c.Field].i, c.Operator, c.Value.i)
      found == SelectSeq(SelectSeq(GetAllRecords(w, q.table), IsCurrent), holds)
      n == Len(found)
      ordered == { p \in Permutations(1..n) :
                     \A i, j \in 1..n :
                       i < j => found[p[i]].data[q.sortField].i
                                  <= found[p[j]].data[q.sortField].i }
  IN  { LET res == [i \in 1..n |-> found[p[i]]]
        IN  IF q.limitCount > 0 /\ n > q.limitCount
              THEN SubSeq(res, 1, q.limitCount)
              ELSE res : p \in ordered }

\* C20: for a table whose int field was filled by committed inserts,
\* Select(t).Where(n, op, v).Sort(n, ascending).Limit(k).GetAll() returns the
\* current records whose stored n satisfies n op v under numeric comparison,
\* ordered numerically by n, truncated to the first k when k > 0.
C20_QuerySelects ==
  \A q \in Queries :
    q.sortAscending => GetAll(World, q) \subseteq Selected(World, q)


\* The pairings of a stored value and a condition value that the operator
\* compares: two strings, two numbers, and for = and != two booleans.
Comparable(a, b, op) ==
  \/ a.k = "string" /\ b.k = "string"
  \/ a.k \in {"int", "int64", "float64"} /\ b.k \in {"int", "int64", "float64"}
  \/ a.k = "bool" /\ b.k = "bool" /\ op \in {"=", "!="}

\* C21: for every operator, != among them, a Where predicate whose stored
\* value and comparison value are not comparable is false: GetAll returns
\* none of the records whose stored value does not compare with the
\* condition's value.
C21_IncomparableIsFalse ==
  \A q \in Queries \cup MixedQueries :
    \A res \in GetAll(World, q) : \A i \in DOMAIN res :
      LET c == q.conditions[1]
      IN  Comparable(res[i].data[c.Field], c.Value, c.Operator)


\* The records of res that have a value for field f come first.
MissingLast(res, f) ==
  \A i, j \in DOMAIN res :
    (i < j /\ f \in DOMAIN res[j].data) => f \in DOMAIN res[i].data

\* C22: GetAll with Sort(f, asc) returns the selected records ordered by the
\* value of f in numeric order (the field is an int), non-decreasing when asc
\* is true and non-increasing when it is false, and in both directions the
\* records that lack a value for f come after all records that have one.
C22_SortOrders ==
  \A q \in SortQueries : \A res \in GetAll(World, q) :
    LET f == q.sortField
    IN  /\ MissingLast(res, f)
        /\ \A i, j \in DOMAIN res :
             (i < j /\ f \in DOMAIN res[i].data /\ f \in DOMAIN res[j].data) =>
               IF q.sortAscending
                 THEN res[i].data[f].i <= res[j].data[f].i
                 ELSE res[i].data[f].i >= res[j].data[f].i



\* A string without its trailing zero bytes.
RECURSIVE Trim(_)
Trim(v) ==
  IF v # <<>> /\ v[Len(v)] = Nul THEN Trim(SubSeq(v, 1, Len(v) - 1)) ELSE v

\* Two values are the same number, or the same string up to trailing zero
\* bytes.
SameValue(a, b) ==
  IF a.k = "string" \/ b.k = "string"
    THEN a.k = b.k /\ Trim(a.s) = Trim(b.s)
    ELSE a.i = b.i

\* Records a and b of a table with these fields agree on id, flags, null
\* flags, the values of the int and string fields and the ref offsets.
SameRecord(a, b, fields) ==
  /\ a.id = b.id /\ a.cur = b.cur /\ a.del = b.del /\ a.lck = b.lck
  /\ \A f \in Range(NonIdFields(fields)) :
       /\ (IF f.name \in DOMAIN a.meta THEN a.meta[f.name] ELSE TRUE)
            = (IF f.name \in DOMAIN b.meta THEN b.meta[f.name] ELSE TRUE)
       /\ f.type # "ref" =>
            /\ f.name \in DOMAIN a.data <=> f.name \in DOMAIN b.data
            /\ f.name \in DOMAIN a.data => SameValue(a.data[f.name], b.data[f.name])
       /\ f.type = "ref" =>
            /\ f.name \in DOMAIN a.ref <=> f.name \in DOMAIN b.ref
            /\ f.name \in DOMAIN a.ref => a.ref[f.name] = b.ref[f.name]

\* C23: for a list of well-typed records (here the list a table holds, as
\* GetAllRecords gives it: ids, flags, int values, null flags and the offsets
\* of the non-null ref fields), WriteRecords followed by GetAllRecords
\* returns as many records in the same order, each with the same id, flags,
\* null flags, field values and ref offsets.
C23_WriteThenRead ==
  \A t \in tables :
    LET rs == GetAllRecords(World, t)
        wr == WriteRecords(World, t, rs)
        back == GetAllRecords(wr.w, t)
    IN  /\ wr.ok
        /\ Len(back) = Len(rs)
        /\ \A i \in DOMAIN rs : SameRecord(rs[i], back[i], Fields(t))

\* C24: for every record stored in a table file, also one with a non-null
\* ref field, decoding its bytes with DeserializeRecord and encoding the
\* result with Serialize yields the same bytes.
C24_DecodeThenEncode ==
  \A t \in tables : \A i \in DOMAIN files[t] :
    LET e == Serialize(DeserializeRecord(files[t][i], Fields(t)), Fields(t))
    IN  e.ok /\ e.bytes = files[t][i]

\* The records that the committed inserts of this run wrote, as they were
\* given to Serialize: the staged records, current and unlocked.
Written(t) ==
  { h \in DOMAIN heap : htab[h] = t /\ hsrc[h].kind = "insert" }

\* C25: a string shorter than its field's length that is written and read
\* back through the codec is returned without the zero padding: the decoded
\* value equals the written value, so Where(field, "=", value) matches the
\* stored record.
C25_StringWithoutPadding ==
  \A i \in DOMAIN files[NamesTable] : \A h \in Written(NamesTable) :
    LET stored == GetAllRecords(World, NamesTable)[i]
        value == heap[h].data["name"]
        q == Where(Select(NamesTable), "name", "=", value)
    IN  (heap[h].id = stored.id /\ Len(value.s) < NameLen) =>
          /\ stored.data["name"] = value
          /\ \A res \in GetAll(World, q) : \E j \in DOMAIN res : res[j].id = stored.id


\* C26: GetTable called with a name that carries no schema qualifier returns
\* an error and resolves to no table, whoever calls it: a caller with the
\* name of any table, or Commit and Rollback with the name a transaction
\* staged its records under.
C26_BareNameRejected ==
  /\ \A t \in AllTables : ~GetTable(World, << t.name >>).ok
  /\ \A tx \in Txs : \A k \in DOMAIN staged[tx] : ~GetTable(World, << k >>).ok


\* What CreateTable has to refuse: no name, a leading dot, the name "index",
\* a timeID field whose length is not 8, a ref field whose length is not 128.
Refusable(name, fields) ==
  \/ name = <<>>
  \/ HasDotPrefix(name)
  \/ name = << "i", "n", "d", "e", "x" >>
  \/ \E i \in DOMAIN fields :
       \/ fields[i].type = "timeID" /\ fields[i].length # 8
       \/ fields[i].type = "ref" /\ fields[i].length # 128

\* C27: CreateTable with an empty name, a name starting with '.', the name
\* "index", a timeID field whose length is not 8 or a ref field whose length
\* is not 128 returns an error and creates no data file, config file or
\* sidecar; creating a table whose name exists in the schema fails and
\* leaves the files of the existing table as they were.
C27_CreateTableValidates ==
  \A name \in TableNames, fields \in FieldLists :
    LET resp == CreateTable(cat, name, fields)
        r == TmCreateTable(cat, name, fields)
    IN  (Refusable(name, fields) \/ name \in DOMAIN cat.data) =>
          /\ resp.code >= 400 /\ resp.c = cat
          /\ r.err # "" /\ r.c = cat

\* A table exists and holds records, with a sidecar that holds payloads: a
\* second CreateTable under its name has files to leave alone.
C27_Witness ==
  \E name \in DOMAIN cat.data :
    /\ Len(cat.data[name]) = MaxRows
    /\ << name, "body" >> \in DOMAIN cat.side
    /\ cat.side[<< name, "body" >>] # <<>>
    /\ CreateTable(cat, name, cat.conf[name]).code >= 400


\* The records transaction tx has staged, over all its tables.
StagedOf(tx) ==
  UNION { Range(staged[tx][k]) : k \in DOMAIN staged[tx] }

\* C28: every record in the staged set of an active transaction, whether
\* StageInsert, StageUpdate or StageDelete put it there, has is_current
\* false, is_locked true and the transaction's id as its transaction_id.
C28_StagedNotCurrent ==
  \A tx \in Txs :
    status[tx] = "active" =>
      \A h \in StagedOf(tx) :
        ~heap[h].cur /\ heap[h].lck /\ heap[h].tx = tx


\* C29: in every reachable state every record with is_locked true, in
\* memory or in a table file, has a transaction_id other than 0, and every
\* record in a table file has is_locked false and transaction_id 0 (the
\* files are written by commits, rollbacks and cleanups only).
C29_LockedHasOwner ==
  /\ \A h \in Handles : heap[h].lck => heap[h].tx # 0
  /\ \A t \in tables : \A i \in DOMAIN files[t] :
       ~files[t][i].lck /\ files[t][i].tx = 0


\* A record in memory is locked while a table file holds a record that a
\* commit of this run persisted.
C29_Witness ==
  /\ \E h \in Handles : heap[h].lck
  /\ \E tx \in Txs :
       /\ status[tx] = "committed"
       /\ \E h \in StagedOf(tx) : \E i \in DOMAIN files[htab[h]] :
            files[htab[h]][i].id = heap[h].id


\* A record of a table file with its current flag set aside: Commit may
\* demote a record it found in the file.
SetCurrentAside(b) == [b EXCEPT !.cur = TRUE]

\* C30: after a successful Commit each affected table file consists of the
\* records it held immediately before the commit, in their previous order,
\* followed by the transaction's staged records for that table in staging
\* order, each of them persisted with is_current true, is_locked false and
\* transaction_id 0.
C30_CommitAppends ==
  \A tx \in Txs : \A o \in Orders(DOMAIN staged[tx]) :
    LET r == Commit(World, tx, o)
    IN  (status[tx] = "active" /\ r.err = "")
        => \A k \in DOMAIN staged[tx] :
             LET t == GetTable(World, << k >>).table
                 hs == staged[tx][k]
                 n == Len(files[t])
                 out == r.w.files[t]
             IN  /\ Len(out) = n + Len(hs)
                 /\ \A i \in 1..n :
                      SetCurrentAside(out[i]) = SetCurrentAside(files[t][i])
                 /\ \A j \in DOMAIN hs :
                      /\ out[n + j].id = heap[hs[j]].id
                      /\ out[n + j].del = heap[hs[j]].del
                      /\ out[n + j].cur /\ ~out[n + j].lck /\ out[n + j].tx = 0


\* C31: StageUpdate of an active transaction with a non-null value whose
\* type is not the declared type of the field, or with a field the table
\* does not have, fails at staging time and adds no record to the staged set.
C31_StageUpdateChecksTypes ==
  \A tx \in Txs, h \in Handles :
    \A u \in MistypedUpdates : \A t0 \in Readings :
      LET r == StageUpdate(World, tx, htab[h], h, u, t0)
      IN  status[tx] = "active"
          => r.err # "" /\ r.w.staged = staged


\* C32: WriteRecords replaces the table file atomically: at every moment a
\* reader of the table file sees the complete record list the file held at
\* first or a complete list handed to a WriteRecords that served, never a
\* partial list; a call that fails before its rename leaves the file as a
\* complete list too.
C32_AtomicReplace ==
  ReadTable \in { FileOf(l) : l \in {OldList, ListA, ListB} }


\* The tables transaction tx has staged records against.
StagedAgainst(tx) == { htab[h] : h \in StagedOf(tx) }

\* C33: a successful Commit writes the transaction's staged records only to
\* the file of the table each was staged against, in that table's own
\* schema: every staged record is in the file of its table, and the file of
\* any other table, a same-named table of another schema included, is as
\* it was.
C33_CommitKeepsToItsTables ==
  \A tx \in Txs : \A o \in Orders(DOMAIN staged[tx]) :
    LET r == Commit(World, tx, o)
    IN  (status[tx] = "active" /\ r.err = "")
        => /\ \A h \in StagedOf(tx) :
                \E i \in DOMAIN r.w.files[htab[h]] :
                  r.w.files[htab[h]][i].id = heap[h].id
           /\ \A t \in AllTables \ StagedAgainst(tx) : r.w.files[t] = files[t]


\* C34: a successful Commit changes nothing but is_current in the records
\* that were in a table already: each is still at its place with its id, its
\* field values, null flags, is_deleted flag and ref offsets, and a ref
\* field that read its payload before the commit reads the same payload
\* after it.
C34_CommitKeepsExisting ==
  \A tx \in Txs : \A o \in Orders(DOMAIN staged[tx]) :
    LET r == Commit(World, tx, o)
    IN  (status[tx] = "active" /\ r.err = "")
        => \A t \in tables : \A i \in DOMAIN files[t] :
             /\ i \in DOMAIN r.w.files[t]
             /\ LET before == GetAllRecords(World, t)[i]
                    after == GetAllRecords(r.w, t)[i]
                    old == ReadRefData(before, side[t]["body"], "body")
                    new == ReadRefData(after, r.w.side[t]["body"], "body")
                IN  /\ [after EXCEPT !.cur = before.cur] = before
                    /\ ("body" \in DOMAIN before.ref /\ old.ok)
                         => new.ok /\ new.value = old.value


\* What a one-shot call leaves of the transaction it created: out of the
\* registry and in a terminal state.
OneShotEnded(r) ==
  /\ r.w.reg = reg
  /\ r.w.status[txCounter + 1] \in Terminal

\* C35: whenever InsertRecord, UpdateRecord or DeleteRecord returns, with
\* success or with an error from staging or from commit, the transaction it
\* created is not in the manager's registry and is committed or rolled
\* back, so the registry has the entries it had before the call.
C35_OneShotLeavesNoTransaction ==
  \A t0 \in Readings :
    /\ \A t \in tables, d \in inserts : OneShotEnded(InsertRecord(World, t, d, t0))
    /\ \A h \in Handles :
         /\ \A u \in UpdateData : OneShotEnded(UpdateRecord(World, htab[h], h, u, t0))
         /\ OneShotEnded(DeleteRecord(World, htab[h], h, t0))


\* How often the table file of a staged record holds a record with its id.
Copies(h) ==
  Cardinality({ i \in DOMAIN files[htab[h]] : files[htab[h]][i].id = heap[h].id })

\* C36: when a transaction with staged records in several tables has
\* committed, after a Commit that failed part-way or not, every one of its
\* staged records is in its table file exactly once.
C36_RetryWritesOnce ==
  \A tx \in Txs :
    status[tx] = "committed" => \A h \in StagedOf(tx) : Copies(h) = 1


\* C37: a CleanupWorker that was started and stopped can be started again:
\* while it is marked running and no Stop is under way its goroutine is
\* there to take the next tick, and no Stop ends in a panic.
C37_RestartedWorkerRuns ==
  /\ wk.caller # "panic"
  /\ (wk.isRunning[wk.worker] /\ wk.caller = "idle") => wk.go[wk.worker] # "exited"

====
